---- MODULE Spec2Model ----
(***************************************************************************)
(* A model of optillm.py: the gateway that parses a composite model        *)
(* identifier into strategies and an operator, runs the strategies        *)
(* (SINGLE / AND / OR, repeated n times) and renders the aggregate.        *)
(*                                                                         *)
(* Strings are sequences of symbols.  A symbol is either one of the        *)
(* separator characters the code splits on, a marker the code searches     *)
(* for, or a word: a maximal run of other characters.                      *)
(***************************************************************************)
EXTENDS Integers, Sequences, FiniteSets, TLC

(***************************************************************************)
(* Bounds of the model.                                                    *)
(***************************************************************************)
\* the largest repetition count n a request carries
MaxN == 2
\* the largest number of strategy calls a request asks for (its repetition
\* count times the strategies of one unit)
MaxCalls == 4
\* the largest token count one strategy invocation reports
MaxTokens == 1

(***************************************************************************)
(* Python values: a str, a list, a dict or None, tagged with their type so *)
(* that isinstance() can be modelled.                                      *)
(***************************************************************************)
None == [type |-> "NoneType"]
Str(s) == [type |-> "str", val |-> s]
List(xs) == [type |-> "list", val |-> xs]
IsList(v) == v.type = "list"
IsStr(v) == v.type = "str"

RECURSIVE SumSeq(_)
SumSeq(s) == IF s = <<>> THEN 0 ELSE Head(s) + SumSeq(Tail(s))

RECURSIVE Flatten(_)
Flatten(ss) == IF ss = <<>> THEN <<>> ELSE Head(ss) \o Flatten(Tail(ss))

(***************************************************************************)
(* str.split(sep), sep.join(parts), `sep in s`.                            *)
(***************************************************************************)
Contains(s, sym) == \E i \in 1..Len(s) : s[i] = sym

RECURSIVE split(_, _)
split(s, sep) ==
    IF ~Contains(s, sep) THEN <<s>>
    ELSE LET i == CHOOSE j \in 1..Len(s) :
                      s[j] = sep /\ \A h \in 1..(j - 1) : s[h] # sep
         IN  <<SubSeq(s, 1, i - 1)>> \o split(SubSeq(s, i + 1, Len(s)), sep)

RECURSIVE join(_, _)
join(sep, parts) ==
    IF parts = <<>> THEN <<>>
    ELSE IF Len(parts) = 1 THEN parts[1]
    ELSE parts[1] \o <<sep>> \o join(sep, Tail(parts))

(***************************************************************************)
(* known_approaches and the slugs used as plugin names and model names.    *)
(***************************************************************************)
known_approaches ==
    { <<"none">>, <<"mcts">>, <<"bon">>, <<"moa">>, <<"rto">>, <<"z3">>,
      <<"self_consistency">>, <<"pvg">>, <<"rstar">>, <<"cot_reflection">>,
      <<"plansearch">>, <<"leap">>, <<"re2">>, <<"cepo">> }

(***************************************************************************)
(* parse_combined_approach(model, known_approaches, plugin_approaches).    *)
(* st is the state of the loop over the parts.                             *)
(***************************************************************************)
\* a scan that goes on looking for strategy tokens after a model name
ParseStep_keeps_parsing(st, part, known, plugins) ==
    IF part \in known \/ part \in DOMAIN plugins
    THEN [st EXCEPT !.approaches = Append(@, part)]
    ELSE IF Contains(part, "&")
    THEN [st EXCEPT !.operation = "AND",
                    !.approaches = @ \o split(part, "&")]
    ELSE IF Contains(part, "|")
    THEN [st EXCEPT !.operation = "OR",
                    !.approaches = @ \o split(part, "|")]
    ELSE [st EXCEPT !.model_parts = Append(@, part)]

\* a scan that looks for | before it looks for &
ParseStep_or_before_and(st, part, known, plugins) ==
    IF st.parsing_approaches
    THEN IF part \in known \/ part \in DOMAIN plugins
         THEN [st EXCEPT !.approaches = Append(@, part)]
         ELSE IF Contains(part, "|")
         THEN [st EXCEPT !.operation = "OR",
                         !.approaches = @ \o split(part, "|")]
         ELSE IF Contains(part, "&")
         THEN [st EXCEPT !.operation = "AND",
                         !.approaches = @ \o split(part, "&")]
         ELSE [st EXCEPT !.parsing_approaches = FALSE,
                         !.model_parts = Append(@, part)]
    ELSE [st EXCEPT !.model_parts = Append(@, part)]

\* lines 273-288: one part of the identifier
ParseStep(st, part, known, plugins) ==
    IF st.parsing_approaches
    THEN IF part \in known \/ part \in DOMAIN plugins
         THEN [st EXCEPT !.approaches = Append(@, part)]
         ELSE IF Contains(part, "&")
         THEN [st EXCEPT !.operation = "AND",
                         !.approaches = @ \o split(part, "&")]
         ELSE IF Contains(part, "|")
         THEN [st EXCEPT !.operation = "OR",
                         !.approaches = @ \o split(part, "|")]
         ELSE [st EXCEPT !.parsing_approaches = FALSE,
                         !.model_parts = Append(@, part)]
    ELSE [st EXCEPT !.model_parts = Append(@, part)]

RECURSIVE ParseLoop(_, _, _, _)
ParseLoop(st, parts, known, plugins) ==
    IF parts = <<>> THEN st
    ELSE ParseLoop(ParseStep(st, Head(parts), known, plugins),
                   Tail(parts), known, plugins)

\* a parser without the default of lines 289-291
parse_combined_approach_no_default(model, known, plugins) ==
    IF model = <<"auto">>
    THEN [operation |-> "SINGLE", approaches |-> << <<"none">> >>, model |-> model]
    ELSE LET st == ParseLoop([approaches |-> <<>>, operation |-> "SINGLE",
                              model_parts |-> <<>>, parsing_approaches |-> TRUE],
                             split(model, "-"), known, plugins)
         IN  [operation  |-> st.operation,
              approaches |-> st.approaches,
              model      |-> join("-", st.model_parts)]

\* lines 263-295
parse_combined_approach(model, known, plugins) ==
    IF model = <<"auto">>
    THEN [operation |-> "SINGLE", approaches |-> << <<"none">> >>, model |-> model]
    ELSE LET st == ParseLoop([approaches |-> <<>>, operation |-> "SINGLE",
                              model_parts |-> <<>>, parsing_approaches |-> TRUE],
                             split(model, "-"), known, plugins)
         IN  [operation  |-> IF st.approaches = <<>> THEN "SINGLE" ELSE st.operation,
              approaches |-> IF st.approaches = <<>> THEN << <<"none">> >>
                             ELSE st.approaches,
              model      |-> join("-", st.model_parts)]

(***************************************************************************)
(* str.strip(): leading and trailing whitespace symbols are removed.       *)
(***************************************************************************)
Whitespace == {" ", "\n"}

RECURSIVE lstrip(_)
lstrip(s) == IF s # <<>> /\ Head(s) \in Whitespace THEN lstrip(Tail(s)) ELSE s

RECURSIVE rstrip(_)
rstrip(s) ==
    IF s # <<>> /\ s[Len(s)] \in Whitespace
    THEN rstrip(SubSeq(s, 1, Len(s) - 1)) ELSE s

strip(s) == rstrip(lstrip(s))

(***************************************************************************)
(* extract_optillm_approach(content).  The pattern                         *)
(* <optillm_approach>(.*?)</optillm_approach> matches from the first       *)
(* opening tag that has a closing tag after it on the same line, up to the *)
(* nearest such closing tag; re.sub removes every match, left to right.    *)
(***************************************************************************)
TagOpen == "<optillm_approach>"
TagClose == "</optillm_approach>"

ClosesAt(s, i, j) ==
    /\ j > i
    /\ s[j] = TagClose
    /\ \A h \in (i + 1)..(j - 1) : s[h] # "\n" /\ s[h] # TagClose

MatchesAt(s, i) == s[i] = TagOpen /\ \E j \in (i + 1)..Len(s) : ClosesAt(s, i, j)

HasMatch(s) == \E i \in 1..Len(s) : MatchesAt(s, i)

MatchStart(s) ==
    CHOOSE i \in 1..Len(s) : MatchesAt(s, i) /\ \A h \in 1..(i - 1) : ~MatchesAt(s, h)

MatchEnd(s) == CHOOSE j \in 1..Len(s) : ClosesAt(s, MatchStart(s), j)

RECURSIVE re_sub_tags(_)
re_sub_tags(s) ==
    IF ~HasMatch(s) THEN s
    ELSE SubSeq(s, 1, MatchStart(s) - 1)
           \o re_sub_tags(SubSeq(s, MatchEnd(s) + 1, Len(s)))

\* returns (content, approach); approach is None when nothing matched
extract_optillm_approach(content) ==
    IF HasMatch(content)
    THEN [content  |-> strip(re_sub_tags(content)),
          approach |-> Str(SubSeq(content, MatchStart(content) + 1,
                                  MatchEnd(content) - 1))]
    ELSE [content |-> content, approach |-> None]

(***************************************************************************)
(* parse_conversation(messages).  A message is [role, content]; content is *)
(* a str, None (a JSON null) or a list of parts [type, text].  re.search   *)
(* raises TypeError on a content that is not a string.                     *)
(***************************************************************************)
\* a Python value used as a condition: None and '' are false
Truthy(v) == v.type # "NoneType" /\ v.val # <<>>

RECURSIVE JoinTextParts(_)
JoinTextParts(items) ==
    IF items = <<>> THEN <<>>
    ELSE LET rest == SelectSeq(Tail(items), LAMBDA it : it.type = "text")
         IN  IF Head(items).type # "text" THEN JoinTextParts(Tail(items))
             ELSE IF rest = <<>> THEN Head(items).text
             ELSE Head(items).text \o <<" ">> \o JoinTextParts(Tail(items))

\* str(x) of an f-string
Format(v) == IF v.type = "NoneType" THEN <<"None">> ELSE v.val

ConvStep(st, message) ==
    LET content == message.content
        text_content == IF IsList(content) THEN Str(JoinTextParts(content.val))
                        ELSE content
    IN  IF st.raised THEN st
        ELSE IF message.role = "system"
        THEN IF ~IsStr(text_content) THEN [st EXCEPT !.raised = TRUE]
             ELSE LET r == extract_optillm_approach(text_content.val)
                  IN  [st EXCEPT !.system_prompt = r.content,
                                 !.optillm_approach = r.approach]
        ELSE IF message.role = "user"
        THEN IF ~Truthy(st.optillm_approach)
             THEN IF ~IsStr(text_content) THEN [st EXCEPT !.raised = TRUE]
                  ELSE LET r == extract_optillm_approach(text_content.val)
                       IN  [st EXCEPT
                              !.conversation = Append(@, <<"User:", " ">> \o r.content),
                              !.optillm_approach = r.approach]
             ELSE [st EXCEPT !.conversation =
                                Append(@, <<"User:", " ">> \o Format(text_content))]
        ELSE IF message.role = "assistant"
        THEN [st EXCEPT !.conversation =
                           Append(@, <<"Assistant:", " ">> \o Format(text_content))]
        ELSE st

RECURSIVE ConvLoop(_, _)
ConvLoop(st, messages) ==
    IF messages = <<>> THEN st ELSE ConvLoop(ConvStep(st, Head(messages)), Tail(messages))

parse_conversation(messages) ==
    LET st == ConvLoop([system_prompt |-> <<>>, conversation |-> <<>>,
                        optillm_approach |-> None, raised |-> FALSE], messages)
    IN  [raised           |-> st.raised,
         system_prompt    |-> st.system_prompt,
         initial_query    |-> join("\n", st.conversation),
         optillm_approach |-> st.optillm_approach]

(***************************************************************************)
(* tagged_conversation_to_messages(response_text).                         *)
(* re.split(r'(?=(User:|Assistant:))', text) cuts the text before every    *)
(* marker and also returns each marker it captured, so every marker yields *)
(* two parts: the marker alone and the text from it to the next marker.    *)
(***************************************************************************)
Markers == {"User:", "Assistant:"}

has_conversation_tags(text) == \E i \in 1..Len(text) : text[i] \in Markers

RoleOf(marker) == IF marker = "User:" THEN "user" ELSE "assistant"

\* the parts of re.split: the piece before the first marker, then per marker
\* the captured marker and the piece that starts with it
RECURSIVE re_split_markers(_, _)
re_split_markers(t, from) ==
    LET next == {i \in (from + 1)..Len(t) : t[i] \in Markers}
        stop == IF next = {} THEN Len(t) + 1
                ELSE CHOOSE i \in next : \A h \in next : i <= h
        piece == SubSeq(t, from, stop - 1)
    IN  <<piece>> \o
        (IF next = {} THEN <<>> ELSE << <<t[stop]>> >> \o re_split_markers(t, stop))

PartMessages(part) ==
    LET p == strip(part)
    IN  IF p # <<>> /\ p[1] \in Markers
        THEN << [role |-> RoleOf(p[1]), content |-> strip(Tail(p))] >>
        ELSE <<>>

RECURSIVE PartsMessages(_)
PartsMessages(parts) ==
    IF parts = <<>> THEN <<>>
    ELSE PartMessages(Head(parts)) \o PartsMessages(Tail(parts))

process_single_response(text) ==
    IF ~has_conversation_tags(text.val) THEN text
    ELSE LET t == strip(text.val)
             first == IF t[1] \in Markers
                      THEN << <<>>, <<t[1]>> >> \o re_split_markers(t, 1)
                      ELSE re_split_markers(t, 1)
             parts == SelectSeq(first, LAMBDA p : strip(p) # <<>>)
         IN  List(PartsMessages(parts))

tagged_conversation_to_messages(response_text) ==
    IF IsList(response_text)
    THEN LET processed == [i \in 1..Len(response_text.val) |->
                              process_single_response(response_text.val[i])]
         IN  IF \A i \in 1..Len(processed) : IsStr(processed[i])
             THEN response_text
             ELSE List(processed)
    ELSE process_single_response(response_text)

(***************************************************************************)
(* secrets.compare_digest(a, b) on two str: TypeError when either holds a  *)
(* non-ASCII character, else whether they are equal.                       *)
(***************************************************************************)
NonAscii == {"k\\xe9"}

compare_digest(a, b) ==
    IF \E i \in 1..Len(a) : a[i] \in NonAscii THEN "TypeError"
    ELSE IF \E i \in 1..Len(b) : b[i] \in NonAscii THEN "TypeError"
    ELSE IF a = b THEN "equal" ELSE "different"

(***************************************************************************)
(* What the environment supplies: requests, strategy results, backend      *)
(* responses.                                                              *)
(***************************************************************************)
Paths == {"/health", "/v1/models", "/v1/chat/completions"}

\* the Authorization header: absent, or a string
AuthHeaders ==
    { None,
      Str(<<"Basic", " ", "k1">>),
      Str(<<"Bearer", " ", "k1">>),
      Str(<<"Bearer", " ", "k2">>),
      Str(<<"Bearer", " ", "k\\xe9">>) }

\* --optillm-api-key: '' (no key) or a key
ApiKeys == { <<>>, <<"k1">> }

\* the model field of a request: absent (None) or a composite identifier
\* ("gpt" is a base model name and no slug; "plug" is a registered plugin)
ModelFields ==
    { None, Str(<<"auto">>) } \cup
    { Str(id \o <<"-", "gpt">>) : id \in
        { <<"gpt">>, <<"none">>, <<"mcts">>, <<"plug">>,
          <<"mcts", "-", "plug">>,
          <<"mcts", "&", "plug">>, <<"plug", "|", "mcts">>,
          <<"mcts", "&", "plug", "&", "bon">>, <<"plug", "|", "mcts", "|", "bon">>,
          <<"none", "&", "mcts">>, <<"mcts", "|", "none">>,
          <<"mcts", "&", "gpt">>, <<"gpt", "|", "plug">>, <<"mcts", "&">>,
          <<"mcts", "&", "plug", "|", "bon">>,
          <<"mcts", "&", "plug", "-", "plug", "|", "mcts">> } }

\* the optillm_approach field of a request: absent or a string
ApproachFields == { None, Str(<<"auto">>), Str(<<"mcts">>), Str(<<"none">>) }

\* the n field of a request: absent or a number
NFields == { None } \cup { [type |-> "int", val |-> k] : k \in 0..MaxN }

\* the messages field of a request
MessageLists ==
    { << >>,
      << [role |-> "system", content |-> Str(<<"brief">>)],
         [role |-> "user", content |-> Str(<<"hi">>)] >>,
      << [role |-> "user",
          content |-> Str(<<TagOpen, "plug", TagClose, " ", "hi">>)] >>,
      << [role |-> "user", content |-> None] >> }

\* the tuning values of mcts the server starts with (lines 99-101)
StartupTuning ==
    [mcts_simulations |-> 2, mcts_exploration |-> "0.2", mcts_depth |-> 1]

\* a request without the fields mcts_depth, mcts_exploration, mcts_simulations
NoTuning ==
    [mcts_depth |-> None, mcts_exploration |-> None, mcts_simulations |-> None]

\* the three fields of a request: all absent, or all three given
TuningFields ==
    { NoTuning,
      [mcts_depth |-> [type |-> "int", val |-> 3],
       mcts_exploration |-> [type |-> "float", val |-> "0.5"],
       mcts_simulations |-> [type |-> "int", val |-> 4]] }

\* what a strategy may return as its content, and as its token count
Contents ==
    { Str(<<"r1">>),
      Str(<<"User:", " ", "hi", "\n", "Assistant:", " ", "r2">>) }

TokenCounts == 0..MaxTokens

\* what the backend's completion call may return: a completion with choices
\* (one choice, two choices, one choice with an empty content)
BackendResponses ==
    { [type |-> "dict", val |-> << Str(<<"b1">>) >>],
      [type |-> "dict", val |-> << Str(<<"b1">>), Str(<<"b2">>) >>],
      [type |-> "dict", val |-> << Str(<< >>) >>] }

(***************************************************************************)
(* load_plugins() (lines 188-241).  A plugin file is a module that raises  *)
(* or not when it is executed and that has or lacks the attributes SLUG    *)
(* and run.  A directory is the sequence of its *.py files in the order    *)
(* glob returns them; a path that does not exist has no entry in exists.   *)
(***************************************************************************)
PluginModule(file, raises, has_SLUG, SLUG, has_run) ==
    [file |-> file, raises |-> raises, has_SLUG |-> has_SLUG, SLUG |-> SLUG,
     has_run |-> has_run]

\* module.run of the module loaded from a file of a directory
Callable(plugin_dir, file) == [plugin_dir |-> plugin_dir, file |-> file]

\* line 190: plugin_approaches.clear()
Clear(registry) == << >>

\* a scan that takes the local directory first
ScannedDirs_local_first(dirs) ==
    (IF dirs.local_plugin_dir # dirs.package_plugin_dir
     THEN << [plugin_dir |-> dirs.local_plugin_dir, source |-> "local"] >>
     ELSE << >>) \o
    << [plugin_dir |-> dirs.package_plugin_dir, source |-> "package"] >>

\* lines 200-207: the directories scanned, the package directory first
ScannedDirs(dirs) ==
    << [plugin_dir |-> dirs.package_plugin_dir, source |-> "package"] >> \o
    (IF dirs.local_plugin_dir # dirs.package_plugin_dir
     THEN << [plugin_dir |-> dirs.local_plugin_dir, source |-> "local"] >>
     ELSE << >>)

\* lines 224-238: one plugin file
LoadFile(registry, module, plugin_dir) ==
    IF module.raises THEN registry
    ELSE IF module.has_SLUG /\ module.has_run
    THEN (module.SLUG :> Callable(plugin_dir, module.file)) @@ registry
    ELSE registry

\* a scan of a directory that ends at the first file that fails to load or
\* lacks SLUG or run
RECURSIVE LoadFiles_stops_at_failure(_, _, _)
LoadFiles_stops_at_failure(registry, files, plugin_dir) ==
    IF files = << >> THEN registry
    ELSE LET module == Head(files)
         IN  IF module.raises \/ ~(module.has_SLUG /\ module.has_run)
             THEN registry
             ELSE LoadFiles_stops_at_failure(
                      LoadFile(registry, module, plugin_dir), Tail(files),
                      plugin_dir)

\* lines 223-238: the files of one directory, in glob order
RECURSIVE LoadFiles(_, _, _)
LoadFiles(registry, files, plugin_dir) ==
    IF files = << >> THEN registry
    ELSE LoadFiles(LoadFile(registry, Head(files), plugin_dir), Tail(files),
                   plugin_dir)

\* lines 209-238
RECURSIVE LoadDirs(_, _, _)
LoadDirs(registry, scanned, dirs) ==
    IF scanned = << >> THEN registry
    ELSE LET d == Head(scanned)
             loaded == IF d.plugin_dir \notin dirs.exists THEN registry
                       ELSE LoadFiles(registry, dirs.glob[d.plugin_dir],
                                      d.plugin_dir)
         IN  LoadDirs(loaded, Tail(scanned), dirs)

\* the registry after load_plugins() has run on it
load_plugins(registry, dirs) ==
    LoadDirs(Clear(registry), ScannedDirs(dirs), dirs)

\* the installation the server runs with: one bundled plugin, no local ones
InstalledPlugins ==
    [package_plugin_dir |-> "site-packages/optillm/plugins",
     local_plugin_dir   |-> "cwd/optillm/plugins",
     exists |-> {"site-packages/optillm/plugins"},
     glob   |-> [d \in {"site-packages/optillm/plugins"} |->
                   << PluginModule("plug_plugin.py", FALSE, TRUE, <<"plug">>, TRUE) >>]]

(***************************************************************************)
(* The state.                                                              *)
(*   server_config      the process-wide configuration (lines 97-113)      *)
(*   plugin_dirs        the two plugin directories and the modules in them *)
(*   plugin_approaches  the registry: extension slug -> callable (line 119)*)
(*   pc                 where the worker handling the request is           *)
(*   incoming           the request as Flask holds it before the handler   *)
(*   ctx                the locals of proxy() after parsing                *)
(*   loop               the locals of execute_n_times                      *)
(*   chain              the locals of execute_combined_approaches          *)
(*   outer              the future of asyncio.gather in the current OR unit*)
(*   result             what execute_n_times returned to proxy             *)
(*   calls              every call of execute_single_approach made for the *)
(*                      request, with its arguments, its progress and its  *)
(*                      outcome                                            *)
(*   response           the HTTP response sent, or None                    *)
(*   loops              the asyncio event loops created for the request,   *)
(*                      each with what created it and whether it is closed *)
(*   threads            the threads that run beside the worker: further    *)
(*                      request threads and a thread that calls            *)
(*                      load_plugins(), each with its locals               *)
(***************************************************************************)
VARIABLES server_config, plugin_dirs, plugin_approaches, pc, incoming, ctx, loop, chain,
          outer, result, calls, response, loops, threads

vars == <<server_config, plugin_dirs, plugin_approaches, pc, incoming, ctx, loop, chain,
          outer, result, calls, response, loops, threads>>

NoLoop == [i |-> 0, responses |-> <<>>, total_tokens |-> 0]
NoChain == [pos |-> 0, final_response |-> None, total_tokens |-> 0]

Init ==
    /\ server_config \in
         [ approach : {<<"auto">>}, n : {1},
           model : {<<"gpt", "-", "4o", "-", "mini">>},
           optillm_api_key : ApiKeys,
           mcts_simulations : {StartupTuning.mcts_simulations},
           mcts_exploration : {StartupTuning.mcts_exploration},
           mcts_depth : {StartupTuning.mcts_depth} ]
    /\ plugin_dirs = InstalledPlugins
    /\ plugin_approaches = load_plugins(<< >>, InstalledPlugins)
    /\ pc = "idle"
    /\ incoming = None
    /\ ctx = None
    /\ loop = NoLoop
    /\ chain = NoChain
    /\ outer = None
    /\ result = None
    /\ calls = <<>>
    /\ response = None
    /\ loops = {}
    /\ threads = <<>>

(***************************************************************************)
(* Responses.                                                              *)
(***************************************************************************)
\* jsonify({"error": message}), status
ErrorJson(status, message) ==
    [status |-> status, kind |-> "error_json", error |-> message]

\* an exception that no handler of the application catches: Flask answers
\* with its own 500 Internal Server Error page
FlaskError(exception, raised_in) ==
    [status |-> 500, kind |-> "flask_error_page", error |-> exception,
     raised_in |-> raised_in]

Finish(resp) == pc' = "done" /\ response' = resp

(***************************************************************************)
(* A request arrives at the idle worker.                                   *)
(***************************************************************************)
Arrive ==
    /\ pc = "idle"
    /\ \E path \in Paths, auth \in AuthHeaders :
         incoming' = [path |-> path, Authorization |-> auth]
    /\ pc' = "before_request"
    /\ UNCHANGED <<threads, loops, server_config, plugin_dirs, plugin_approaches, ctx, loop, chain, outer,
                   result, calls, response>>

(***************************************************************************)
(* The response has been sent: the worker drops what belonged to the       *)
(* request and is idle again.  Threads the request left running are        *)
(* followed no further.                                                    *)
(***************************************************************************)
teardown ==
    /\ pc = "done"
    /\ pc' = "idle"
    /\ incoming' = None
    /\ ctx' = None
    /\ loop' = NoLoop
    /\ chain' = NoChain
    /\ outer' = None
    /\ result' = None
    /\ calls' = <<>>
    /\ response' = None
    /\ loops' = {}
    /\ UNCHANGED <<threads, server_config, plugin_dirs, plugin_approaches>>

(***************************************************************************)
(* check_api_key, the before_request hook (lines 563-575).                 *)
(***************************************************************************)
startswith_Bearer(h) == Len(h) >= 2 /\ h[1] = "Bearer" /\ h[2] = " "

\* auth_header.split('Bearer ', 1)[1].strip()
client_key(h) == strip(SubSeq(h, 3, Len(h)))

\* "pass" (the hook returns None), "401 header", "401 key" or "TypeError"
check_api_key_result(config, req) ==
    IF config.optillm_api_key = <<>> THEN "pass"
    ELSE IF req.path = "/health" THEN "pass"
    ELSE LET auth_header == req.Authorization
         IN  IF ~Truthy(auth_header) \/ ~startswith_Bearer(auth_header.val)
             THEN "401 header"
             ELSE LET d == compare_digest(client_key(auth_header.val),
                                          config.optillm_api_key)
                  IN  IF d = "TypeError" THEN "TypeError"
                      ELSE IF d = "different" THEN "401 key"
                      ELSE "pass"

check_api_key ==
    /\ pc = "before_request"
    /\ LET r == check_api_key_result(server_config, incoming)
       IN  \/ /\ r = "pass"
              /\ pc' = "dispatch"
              /\ UNCHANGED response
           \/ /\ r = "401 header"
              /\ Finish(ErrorJson(401, "Invalid Authorization header"))
           \/ /\ r = "401 key"
              /\ Finish(ErrorJson(401, "Invalid API key"))
           \/ /\ r = "TypeError"
              /\ Finish(FlaskError("TypeError", "check_api_key"))
    /\ UNCHANGED <<threads, loops, server_config, plugin_dirs, plugin_approaches, incoming, ctx, loop, chain,
                   outer, result, calls>>

(***************************************************************************)
(* health (lines 731-733) and proxy_models (lines 712-729).                *)
(***************************************************************************)
health ==
    /\ pc = "dispatch"
    /\ incoming.path = "/health"
    /\ Finish([status |-> 200, kind |-> "health"])
    /\ incoming' = None
    /\ UNCHANGED <<threads, loops, server_config, plugin_dirs, plugin_approaches, ctx, loop, chain, outer,
                   result, calls>>

proxy_models ==
    /\ pc = "dispatch"
    /\ incoming.path = "/v1/models"
    /\ \/ Finish([status |-> 200, kind |-> "models"])
       \/ Finish(ErrorJson(500, "Error fetching models"))
       \/ Finish(FlaskError("ConfigurationError", "proxy_models"))
    /\ incoming' = None
    /\ UNCHANGED <<threads, loops, server_config, plugin_dirs, plugin_approaches, ctx, loop, chain, outer,
                   result, calls>>

(***************************************************************************)
(* proxy, up to the choice of what to execute (lines 577-656).             *)
(* data is the JSON body: each field is a value, or None when absent.      *)
(* The stream field is used only where the response is built; the model    *)
(* draws it there.                                                         *)
(***************************************************************************)
Get(field, default) == IF field = None THEN default ELSE field.val

\* lines 610-627: the strategy selection and the identifier that is parsed
SelectedApproach(data, config, message_optillm_approach) ==
    IF Truthy(message_optillm_approach) THEN message_optillm_approach.val
    ELSE Get(data.optillm_approach, config.approach)

Identifier(optillm_approach, model) ==
    IF optillm_approach # <<"auto">> THEN optillm_approach \o <<"-">> \o model
    ELSE model

\* the locals of proxy after line 627
proxy_locals(data, config, plugins) ==
    LET conv == parse_conversation(data.messages)
        approach == SelectedApproach(data, config, conv.optillm_approach)
        parsed == parse_combined_approach(
                      Identifier(approach, Get(data.model, config.model)),
                      known_approaches, plugins)
    IN  [operation     |-> parsed.operation,
         approaches    |-> parsed.approaches,
         model         |-> parsed.model,
         n             |-> Get(data.n, config.n),
         system_prompt |-> conv.system_prompt,
         initial_query |-> Str(conv.initial_query),
         message_optillm_approach |-> conv.optillm_approach]

\* a check that looks at the first strategy only
contains_none_first_only(approaches) == approaches[1] = <<"none">>

\* lines 641-656
contains_none(approaches) ==
    \E i \in 1..Len(approaches) : approaches[i] = <<"none">>

Route(c) ==
    IF c.operation = "SINGLE" /\ c.approaches[1] = <<"none">> THEN "passthrough"
    ELSE IF c.operation \in {"AND", "OR"} /\ contains_none(c.approaches)
    THEN "InvalidCombination"
    ELSE "execute_n_times"

\* the calls a request asks for: n units of one call (SINGLE) or of one call
\* per strategy (AND, OR)
PlannedCalls(c) ==
    c.n * (IF c.operation = "SINGLE" THEN 1 ELSE Len(c.approaches))

\* the request bodies the worker draws from; requests that carry tuning
\* fields are drawn by the request threads (ThreadBodies) and for the none
\* branch (NoneBodies)
RequestBodies ==
    { body @@ NoTuning :
        body \in [ model : ModelFields, optillm_approach : ApproachFields,
                   n : NFields, messages : MessageLists ] }

\* request.get_json() is read again after proxy only by the none branch of
\* execute_single_approach (line 303): the request stays in view, with its
\* body, where that branch will run
KeptRequest(req, data, config, plugins) ==
    IF /\ ~parse_conversation(data.messages).raised
       /\ Route(proxy_locals(data, config, plugins)) = "passthrough"
    THEN [json |-> data] @@ req
    ELSE None

\* lines 612-614: the tuning fields of the request are written into the
\* process-wide configuration
WriteTuning(config, data) ==
    [config EXCEPT !.mcts_depth = Get(data.mcts_depth, @),
                   !.mcts_exploration = Get(data.mcts_exploration, @),
                   !.mcts_simulations = Get(data.mcts_simulations, @)]

proxy ==
    /\ pc = "dispatch"
    /\ incoming.path = "/v1/chat/completions"
    /\ \E data \in RequestBodies :
         /\ server_config' = WriteTuning(server_config, data)
         /\ incoming' = KeptRequest(incoming, data, server_config,
                                    plugin_approaches)
         /\ \/ \* parse_conversation raises, outside the try block
               /\ parse_conversation(data.messages).raised
               /\ Finish(FlaskError("TypeError", "proxy"))
               /\ UNCHANGED <<ctx, loop>>
            \/ \* get_config raises, outside the try block
               /\ ~parse_conversation(data.messages).raised
               /\ Finish(FlaskError("ConfigurationError", "proxy"))
               /\ UNCHANGED <<ctx, loop>>
            \/ /\ ~parse_conversation(data.messages).raised
               /\ LET c == proxy_locals(data, server_config, plugin_approaches)
                  IN  /\ PlannedCalls(c) <= MaxCalls
                      /\ ctx' = c
                      /\ \/ /\ Route(c) = "passthrough"
                            /\ pc' = "passthrough"
                            /\ UNCHANGED <<response, loop>>
                         \/ /\ Route(c) = "InvalidCombination"
                            /\ Finish(ErrorJson(500, "InvalidCombination"))
                            /\ UNCHANGED loop
                         \/ /\ Route(c) = "execute_n_times"
                            /\ pc' = "execute_n_times"
                            /\ loop' = NoLoop
                            /\ UNCHANGED response
    /\ UNCHANGED <<threads, loops, plugin_dirs, plugin_approaches, chain, outer, result, calls>>

(***************************************************************************)
(* execute_single_approach (lines 297-376).  The strategies and the        *)
(* backend are opaque: a call returns any (content, token count) or        *)
(* raises.  Dispatch is what the if/elif chain selects for a slug.         *)
(***************************************************************************)
\* a dispatch that looks into the registry first
Dispatch_plugins_first(approach, plugins) ==
    IF approach \in DOMAIN plugins THEN "plugin"
    ELSE IF approach \in known_approaches
    THEN IF approach = <<"none">> THEN "backend" ELSE "builtin"
    ELSE "unknown"

\* lines 298-376: the branch of the if/elif chain the slug takes
Dispatch(approach, plugins) ==
    IF approach \in known_approaches
    THEN IF approach = <<"none">> THEN "backend" ELSE "builtin"
    ELSE IF approach \in DOMAIN plugins THEN "plugin"
    ELSE "unknown"

Returned(ran, res, tokens) ==
    [status |-> "returned", ran |-> ran, result |-> res, tokens |-> tokens,
     error |-> ""]

Raised(ran, error) ==
    [status |-> "raised", ran |-> ran, result |-> None, tokens |-> 0,
     error |-> error]

\* the outcomes of one call: what ran, and (result, tokens) or the exception
Outcomes(approach, plugins) ==
    LET d == Dispatch(approach, plugins)
    IN  IF d = "unknown" THEN { Raised("nothing", "UnknownApproach") }
        ELSE IF d = "backend"
        THEN { Returned(d, r, 0) : r \in BackendResponses }
               \cup { Raised(d, "BackendError") }
        ELSE { Returned(d, c, t) : c \in Contents, t \in TokenCounts }
               \cup { Raised(d, "StrategyError") }

\* lines 313-314: the tuning values mcts is called with
Tuning(config) ==
    [mcts_simulations |-> config.mcts_simulations,
     mcts_exploration |-> config.mcts_exploration,
     mcts_depth       |-> config.mcts_depth]

\* a call of execute_single_approach as the log keeps it: the repetition and
\* the position in the strategies list it was made for, its arguments, and
\* its outcome so far
Call(rep, pos, approach, system_prompt, initial_query, model, o) ==
    [rep |-> rep, pos |-> pos, approach |-> approach,
     system_prompt |-> system_prompt, query |-> initial_query, model |-> model,
     tuning |-> IF approach = <<"mcts">> THEN Tuning(server_config) ELSE None,
     status |-> o.status, ran |-> o.ran, result |-> o.result,
     tokens |-> o.tokens, error |-> o.error]

Submitted == [status |-> "submitted", ran |-> "nothing", result |-> None,
              tokens |-> 0, error |-> ""]

Running(ran) == [status |-> "running", ran |-> ran, result |-> None,
                 tokens |-> 0, error |-> ""]

SetOutcome(call, o) ==
    [call EXCEPT !.status = o.status, !.ran = o.ran, !.result = o.result,
                 !.tokens = o.tokens, !.error = o.error]

(***************************************************************************)
(* The asyncio event loops (lines 352-366 and 422-425).  A loop is kept    *)
(* with what created it, the repetition and the position in the strategies *)
(* list it was created for (position 0: the OR unit of the repetition),    *)
(* and whether it has been closed.                                         *)
(***************************************************************************)
\* the plugin files whose run is a coroutine function (async def run)
CoroutineFiles == {"plug_plugin.py"}

\* line 350: inspect.iscoroutinefunction(plugin_func)
is_async(plugin_func) == plugin_func.file \in CoroutineFiles

\* lines 355 and 422: asyncio.new_event_loop()
new_event_loop(created_by, rep, pos) ==
    [created_by |-> created_by, rep |-> rep, pos |-> pos, closed |-> FALSE]

\* lines 366 and 425: loop.close()
close(l) == [l EXCEPT !.closed = TRUE]

\* a close that follows the call and is skipped when the call raises
AsyncCallEnds_no_finally(l, o) ==
    IF o.status = "raised" THEN l ELSE close(l)

\* lines 357-366: the loop is closed in the finally clause, whether the
\* plugin returned or raised
AsyncCallEnds(l, o) == close(l)

\* lines 343-352: the call runs a registered coroutine function
RunsOnLoop(approach, plugins) ==
    Dispatch(approach, plugins) = "plugin" /\ is_async(plugins[approach])

\* lines 355-356: the call creates its event loop
LoopCreated(ls, rep, pos, approach, plugins) ==
    IF RunsOnLoop(approach, plugins)
    THEN ls \cup { new_event_loop("execute_single_approach", rep, pos) }
    ELSE ls

\* lines 357-366: the call at (rep, pos) has ended with outcome o
LoopEnded(ls, rep, pos, o) ==
    { IF /\ l.created_by = "execute_single_approach"
         /\ l.rep = rep /\ l.pos = pos
      THEN AsyncCallEnds(l, o) ELSE l : l \in ls }

\* lines 352-366: the loops after a call that ran from start to end
LoopsAfterCall(ls, rep, pos, approach, plugins, o) ==
    LoopEnded(LoopCreated(ls, rep, pos, approach, plugins), rep, pos, o)

(***************************************************************************)
(* execute_n_times (lines 396-441).                                        *)
(***************************************************************************)
\* the token count of the last repetition replaces the total
Collect_tokens_overwritten(l, resp, tokens) ==
    [i            |-> l.i + 1,
     responses    |-> IF IsList(resp) THEN l.responses \o resp.val
                      ELSE Append(l.responses, resp),
     total_tokens |-> tokens]

\* lines 431-435: the result of one repetition is added to the results
Collect(l, resp, tokens) ==
    [i            |-> l.i + 1,
     responses    |-> IF IsList(resp) THEN l.responses \o resp.val
                      ELSE Append(l.responses, resp),
     total_tokens |-> l.total_tokens + tokens]

\* the list is returned also when n = 1
Aggregate_always_list(n, responses) == List(responses)

\* lines 439-441
Aggregate(n, responses) ==
    IF n = 1 /\ Len(responses) = 1 THEN responses[1] ELSE List(responses)

\* a loop that takes a raise for an empty repetition and goes on
rep_SINGLE_goes_on ==
    /\ pc = "execute_n_times"
    /\ loop.i < ctx.n
    /\ ctx.operation = "SINGLE"
    /\ \E o \in Outcomes(ctx.approaches[1], plugin_approaches) :
         /\ calls' = Append(calls, Call(loop.i + 1, 1, ctx.approaches[1],
                                        ctx.system_prompt, ctx.initial_query,
                                        ctx.model, o))
         /\ IF o.status = "raised"
            THEN loop' = [loop EXCEPT !.i = @ + 1]
            ELSE loop' = Collect(loop, o.result, o.tokens)
         /\ loops' = LoopsAfterCall(loops, loop.i + 1, 1, ctx.approaches[1],
                                    plugin_approaches, o)
    /\ UNCHANGED <<threads, server_config, plugin_dirs, plugin_approaches, pc, incoming, ctx, chain,
                   outer, result, response>>

\* lines 416-418, 431-435: a repetition of a SINGLE unit
rep_SINGLE ==
    /\ pc = "execute_n_times"
    /\ loop.i < ctx.n
    /\ ctx.operation = "SINGLE"
    /\ \E o \in Outcomes(ctx.approaches[1], plugin_approaches) :
         /\ calls' = Append(calls, Call(loop.i + 1, 1, ctx.approaches[1],
                                        ctx.system_prompt, ctx.initial_query,
                                        ctx.model, o))
         /\ IF o.status = "raised"
            THEN Finish(ErrorJson(500, o.error)) /\ UNCHANGED loop
            ELSE loop' = Collect(loop, o.result, o.tokens)
                 /\ UNCHANGED <<pc, response>>
         /\ loops' = LoopsAfterCall(loops, loop.i + 1, 1, ctx.approaches[1],
                                    plugin_approaches, o)
    /\ UNCHANGED <<threads, server_config, plugin_dirs, plugin_approaches, incoming, ctx, chain, outer,
                   result>>

(***************************************************************************)
(* execute_combined_approaches (lines 378-385), one stage per step.        *)
(***************************************************************************)
\* line 420, lines 379-380
rep_AND ==
    /\ pc = "execute_n_times"
    /\ loop.i < ctx.n
    /\ ctx.operation = "AND"
    /\ pc' = "execute_combined_approaches"
    /\ chain' = [pos |-> 0, final_response |-> ctx.initial_query,
                 total_tokens |-> 0]
    /\ UNCHANGED <<threads, loops, server_config, plugin_dirs, plugin_approaches, incoming, ctx, loop, outer,
                   result, calls, response>>

\* a chain that does not pass the content on: every stage gets the query the
\* chain was called with
ChainStep_query_kept(ch, resp, tokens) ==
    [pos |-> ch.pos + 1, final_response |-> ch.final_response,
     total_tokens |-> ch.total_tokens + tokens]

\* lines 383-384
ChainStep(ch, resp, tokens) ==
    [pos |-> ch.pos + 1, final_response |-> resp,
     total_tokens |-> ch.total_tokens + tokens]

\* lines 381-385: the next stage; after the last one the chain returns
execute_combined_approaches ==
    /\ pc = "execute_combined_approaches"
    /\ LET approach == ctx.approaches[chain.pos + 1]
       IN  \E o \in Outcomes(approach, plugin_approaches) :
             /\ calls' = Append(calls, Call(loop.i + 1, chain.pos + 1, approach,
                                            ctx.system_prompt,
                                            chain.final_response, ctx.model, o))
             /\ IF o.status = "raised"
                THEN Finish(ErrorJson(500, o.error)) /\ UNCHANGED <<loop, chain>>
                ELSE LET ch == ChainStep(chain, o.result, o.tokens)
                     IN  IF ch.pos < Len(ctx.approaches)
                         THEN chain' = ch /\ UNCHANGED <<pc, loop, response>>
                         ELSE /\ chain' = NoChain
                              /\ loop' = Collect(loop, ch.final_response,
                                                 ch.total_tokens)
                              /\ pc' = "execute_n_times"
                              /\ UNCHANGED response
             /\ loops' = LoopsAfterCall(loops, loop.i + 1, chain.pos + 1,
                                        approach, plugin_approaches, o)
    /\ UNCHANGED <<threads, server_config, plugin_dirs, plugin_approaches, incoming, ctx, outer, result>>

(***************************************************************************)
(* execute_parallel_approaches (lines 387-394) on a new event loop (lines  *)
(* 422-425).  Every branch is handed to a worker thread by                 *)
(* asyncio.to_thread; asyncio.gather completes when every branch has       *)
(* returned, or as soon as one branch has raised: the other branches are   *)
(* not cancelled and their threads go on.                                  *)
(***************************************************************************)
Pending == [state |-> "pending", error |-> ""]
Failed(error) == [state |-> "exception", error |-> error]

\* the work items of one OR unit, in the order of the strategies list
Branches(rep, approaches, system_prompt, initial_query, model) ==
    [j \in 1..Len(approaches) |->
        Call(rep, j, approaches[j], system_prompt, initial_query, model,
             Submitted)]

\* lines 422-424, 391: the tasks are created and their threads submitted
rep_OR ==
    /\ pc = "execute_n_times"
    /\ loop.i < ctx.n
    /\ ctx.operation = "OR"
    /\ calls' = calls \o Branches(loop.i + 1, ctx.approaches, ctx.system_prompt,
                                  ctx.initial_query, ctx.model)
    /\ outer' = Pending
    /\ loops' = loops \cup { new_event_loop("execute_n_times", loop.i + 1, 0) }
    /\ pc' = "gather"
    /\ UNCHANGED <<threads, server_config, plugin_dirs, plugin_approaches, incoming, ctx, loop, chain,
                   result, response>>

\* what gather's future becomes when a branch ends with outcome o
Observe(fut, o) ==
    IF fut = Pending /\ o.status = "raised" THEN Failed(o.error) ELSE fut

\* a worker thread begins execute_single_approach for its branch: an unknown
\* slug raises at once, any other slug invokes its strategy
BranchStart(j) ==
    /\ calls[j].status = "submitted"
    /\ IF Dispatch(calls[j].approach, plugin_approaches) = "unknown"
       THEN LET o == Raised("nothing", "UnknownApproach")
            IN  /\ calls' = [calls EXCEPT ![j] = SetOutcome(@, o)]
                /\ outer' = Observe(outer, o)
       ELSE /\ calls' = [calls EXCEPT ![j] = SetOutcome(@,
                            Running(Dispatch(calls[j].approach, plugin_approaches)))]
            /\ UNCHANGED outer
    /\ loops' = LoopCreated(loops, calls[j].rep, calls[j].pos, calls[j].approach,
                            plugin_approaches)
    /\ UNCHANGED <<threads, server_config, plugin_dirs, plugin_approaches, pc, incoming, ctx, loop,
                   chain, result, response>>

\* the strategy of a branch returns or raises in its thread
BranchFinish(j) ==
    /\ calls[j].status = "running"
    /\ \E o \in Outcomes(calls[j].approach, plugin_approaches) :
         /\ calls' = [calls EXCEPT ![j] = SetOutcome(@, o)]
         /\ outer' = Observe(outer, o)
         /\ loops' = LoopEnded(loops, calls[j].rep, calls[j].pos, o)
    /\ UNCHANGED <<threads, server_config, plugin_dirs, plugin_approaches, pc, incoming, ctx, loop,
                   chain, result, response>>

\* the branches of repetition rep, in the order of the strategies list
UnitCalls(log, rep) == SelectSeq(log, LAMBDA c : c.rep = rep)

\* results taken in the reverse of the order of the strategies list
GatherResult_reversed(branches) ==
    [response |-> List([j \in 1..Len(branches) |->
                           branches[Len(branches) + 1 - j].result]),
     tokens   |-> SumSeq([j \in 1..Len(branches) |-> branches[j].tokens])]

\* lines 393-394
GatherResult(branches) ==
    [response |-> List([j \in 1..Len(branches) |-> branches[j].result]),
     tokens   |-> SumSeq([j \in 1..Len(branches) |-> branches[j].tokens])]

\* a gather that takes a branch's exception as its result
\* (return_exceptions=True)
GatherDone_exceptions_returned(fut, branches) ==
    \A j \in 1..Len(branches) : branches[j].status \in {"returned", "raised"}

\* gather is done when every branch has returned
GatherDone(fut, branches) ==
    fut = Pending /\ \A j \in 1..Len(branches) : branches[j].status = "returned"

\* lines 392-394, 425: every branch has returned; the loop is closed
gather_returns ==
    /\ pc = "gather"
    /\ GatherDone(outer, UnitCalls(calls, loop.i + 1))
    /\ LET r == GatherResult(UnitCalls(calls, loop.i + 1))
       IN  loop' = Collect(loop, r.response, r.tokens)
    /\ outer' = None
    /\ loops' = { IF l.created_by = "execute_n_times" /\ l.rep = loop.i + 1
                   THEN close(l) ELSE l : l \in loops }
    /\ pc' = "execute_n_times"
    /\ UNCHANGED <<threads, server_config, plugin_dirs, plugin_approaches, incoming, ctx, chain,
                   result, calls, response>>

\* line 392: a branch has raised; the exception leaves run_until_complete and
\* execute_n_times, past the loop.close() of line 425, and reaches the except
\* clause of proxy (lines 661-663)
gather_raises ==
    /\ pc = "gather"
    /\ outer.state = "exception"
    /\ Finish(ErrorJson(500, outer.error))
    /\ outer' = None
    /\ UNCHANGED <<threads, loops, server_config, plugin_dirs, plugin_approaches, incoming, ctx, loop, chain,
                   result, calls>>

(***************************************************************************)
(* Rendering: lines 443-458, 460-473 and 665-710.                          *)
(***************************************************************************)
Frame(content, index, model) ==
    [delta |-> content, index |-> index, finish_reason |-> "stop",
     model |-> model]

\* a stream whose frames all carry index 0
generate_streaming_response_index_0(final_response, model) ==
    (IF IsList(final_response)
     THEN [k \in 1..Len(final_response.val) |->
              Frame(final_response.val[k], 0, model)]
     ELSE << Frame(final_response, 0, model) >>)
    \o << [done |-> TRUE] >>

\* the frames generate_streaming_response yields, the last one data: [DONE]
generate_streaming_response(final_response, model) ==
    (IF IsList(final_response)
     THEN [k \in 1..Len(final_response.val) |->
              Frame(final_response.val[k], k - 1, model)]
     ELSE << Frame(final_response, 0, model) >>)
    \o << [done |-> TRUE] >>

\* a completion of the backend is the list of the contents of its choices
extract_contents(response_obj) ==
    LET responses == IF IsList(response_obj) THEN response_obj.val
                     ELSE << response_obj >>
        first(r) == IF Len(r.val) > 0 /\ Truthy(r.val[1])
                    THEN << r.val[1] >> ELSE <<>>
    IN  List(Flatten([k \in 1..Len(responses) |-> first(responses[k])]))

\* a normalisation that strips the text it leaves alone
LastContent_stripped(msg) ==
    IF IsList(msg) /\ msg.val # <<>> THEN Str(msg.val[Len(msg.val)].content)
    ELSE Str(strip(msg.val))

\* msg[-1]['content'] if isinstance(msg, list) and msg else msg
LastContent(msg) ==
    IF IsList(msg) /\ msg.val # <<>> THEN Str(msg.val[Len(msg.val)].content)
    ELSE msg

\* lines 665-676
Normalise(resp) ==
    LET processed == tagged_conversation_to_messages(resp)
    IN  IF IsList(resp)
        THEN IF \E k \in 1..Len(processed.val) : ~IsStr(processed.val[k])
             THEN List([k \in 1..Len(processed.val) |->
                           LastContent(processed.val[k])])
             ELSE resp
        ELSE LastContent(processed)

Choice(content, index) ==
    [index |-> index, role |-> "assistant", content |-> content,
     finish_reason |-> "stop"]

\* a completion that puts a list into one choice
response_data_one_choice(resp, model, completion_tokens) ==
    [model   |-> model,
     choices |-> << Choice(resp, 0) >>,
     completion_tokens |-> completion_tokens]

\* lines 681-707
response_data(resp, model, completion_tokens) ==
    [model   |-> model,
     choices |-> IF IsList(resp)
                 THEN [k \in 1..Len(resp.val) |-> Choice(resp.val[k], k - 1)]
                 ELSE << Choice(resp, 0) >>,
     completion_tokens |-> completion_tokens]

EventStream(frames) == [status |-> 200, kind |-> "event_stream", frames |-> frames]

Completion(body) == [status |-> 200, kind |-> "completion", body |-> body]

\* lines 678-710
Render(stream, resp, model, completion_tokens) ==
    IF stream THEN EventStream(generate_streaming_response(resp, model))
    ELSE Completion(response_data(resp, model, completion_tokens))

\* lines 437-441 and 659: execute_n_times returns to proxy
execute_n_times_returns ==
    /\ pc = "execute_n_times"
    /\ loop.i >= ctx.n
    /\ result' = [response          |-> Aggregate(ctx.n, loop.responses),
                  completion_tokens |-> loop.total_tokens]
    /\ pc' = "render"
    /\ UNCHANGED <<threads, loops, server_config, plugin_dirs, plugin_approaches, incoming, ctx, loop, chain,
                   outer, calls, response>>

\* lines 665-710: proxy normalises the result and renders it
render ==
    /\ pc = "render"
    /\ \E stream \in BOOLEAN :
         Finish(Render(stream, Normalise(result.response), ctx.model,
                       result.completion_tokens))
    /\ UNCHANGED <<threads, loops, server_config, plugin_dirs, plugin_approaches, incoming, ctx, loop, chain,
                   outer, result, calls>>

\* lines 126-142: every content that is a list becomes the text of its text
\* parts, joined by spaces
normalize_message_content(messages) ==
    [k \in 1..Len(messages) |->
        IF IsList(messages[k].content)
        THEN [messages[k] EXCEPT
                !.content = Str(JoinTextParts(messages[k].content.val))]
        ELSE messages[k]]

\* lines 165-166
strip_none_prefix(model) ==
    IF Len(model) >= 2 /\ model[1] = "none" /\ model[2] = "-"
    THEN SubSeq(model, 3, Len(model)) ELSE model

\* kwargs that leave out n as well
Kwargs_n_reserved(data) ==
    LET keys == { k \in DOMAIN data :
                    /\ k \notin {"model", "messages", "stream", "n",
                                 "optillm_approach"}
                    /\ data[k] # None }
    IN  [k \in keys |-> data[k]]

\* lines 306-307: the fields the request carries, without model, messages,
\* stream and optillm_approach
Kwargs(data) ==
    LET keys == { k \in DOMAIN data :
                    /\ k \notin {"model", "messages", "stream",
                                 "optillm_approach"}
                    /\ data[k] # None }
    IN  [k \in keys |-> data[k]]

\* lines 173-177: what client.chat.completions.create is called with
BackendCall(data, model) ==
    [model    |-> strip_none_prefix(model),
     messages |-> normalize_message_content(data.messages),
     kwargs   |-> Kwargs(data)]

\* lines 643-652: SINGLE none, the request is passed through to the backend
passthrough ==
    /\ pc = "passthrough"
    /\ \E o \in Outcomes(ctx.approaches[1], plugin_approaches) :
         /\ calls' = Append(calls,
                [backend |-> BackendCall(incoming.json, ctx.model)] @@
                Call(1, 1, ctx.approaches[1], ctx.system_prompt,
                     ctx.initial_query, ctx.model, o))
         /\ IF o.status = "raised"
            THEN Finish(ErrorJson(500, o.error))
            ELSE \E stream \in BOOLEAN :
                   IF stream
                   THEN Finish(EventStream(generate_streaming_response(
                                   extract_contents(o.result), ctx.model)))
                   ELSE Finish([status |-> 200, kind |-> "passthrough",
                                body |-> o.result])
    /\ UNCHANGED <<threads, loops, server_config, plugin_dirs, plugin_approaches, incoming, ctx, loop, chain,
                   outer, result>>

(***************************************************************************)
(* The specification.                                                      *)
(***************************************************************************)
Next ==
    \/ Arrive
    \/ check_api_key
    \/ health
    \/ proxy_models
    \/ proxy
    \/ passthrough
    \/ rep_SINGLE
    \/ rep_AND
    \/ execute_combined_approaches
    \/ rep_OR
    \/ \E j \in 1..Len(calls) : BranchStart(j)
    \/ \E j \in 1..Len(calls) : BranchFinish(j)
    \/ gather_returns
    \/ gather_raises
    \/ execute_n_times_returns
    \/ render
    \/ teardown

Spec == Init /\ [][Next]_vars

(***************************************************************************)
(* What the properties below read from the state.                          *)
(***************************************************************************)
\* proxy has parsed the request
Parsed == ctx # None

\* proxy handed the request to execute_n_times (lines 658-659)
Executing == Parsed /\ Route(ctx) = "execute_n_times"

\* the number of strategies of one unit
K == Len(ctx.approaches)

\* the calls made for repetition r, in the order they were made
CallsOf(r) == SelectSeq(calls, LAMBDA c : c.rep = r)

\* the sum of the token counts of the calls made for repetition r
TokensOf(r) == SumSeq([j \in 1..Len(CallsOf(r)) |-> CallsOf(r)[j].tokens])

\* the sum of the token counts of the calls of repetitions 1..r
RECURSIVE TokensUpTo(_)
TokensUpTo(r) == IF r = 0 THEN 0 ELSE TokensUpTo(r - 1) + TokensOf(r)

\* two Python strings are the same string
SameStr(a, b) == IsStr(a) /\ IsStr(b) /\ a.val = b.val

(***************************************************************************)
(* C1.  An AND unit over strategies s1..sk with query q: s1 is invoked     *)
(* with q; s(i+1) is invoked with exactly the content s(i) returned, and   *)
(* only after s(i) has returned; every invocation receives the same system *)
(* prompt and model; the unit returns the content returned by sk and the   *)
(* sum of the k token counts.  The unit's return value is read where       *)
(* execute_n_times collects it: loop.i counts the units that returned.     *)
(***************************************************************************)
C1_StageInputs(r) ==
    LET u == CallsOf(r)
    IN  \A j \in 1..Len(u) :
          /\ u[j].pos = j
          /\ u[j].approach = ctx.approaches[j]
          /\ u[j].system_prompt = ctx.system_prompt
          /\ u[j].model = ctx.model
          /\ j = 1 => SameStr(u[j].query, ctx.initial_query)
          /\ j > 1 => /\ u[j - 1].status = "returned"
                      /\ SameStr(u[j].query, u[j - 1].result)

C1_UnitReturn(r) ==
    LET u == CallsOf(r)
    IN  /\ Len(u) = K
        /\ u[K].status = "returned"
        /\ SameStr(loop.responses[r], u[K].result)
        /\ loop.total_tokens = TokensUpTo(loop.i)

C1_AndPipeline ==
    (Executing /\ ctx.operation = "AND") =>
        /\ \A r \in 1..(loop.i + 1) : C1_StageInputs(r)
        /\ \A r \in 1..loop.i : C1_UnitReturn(r)

\* an AND unit of three stages has returned; its stages returned different
\* contents and counted tokens
C1_Witness ==
    /\ Executing /\ ctx.operation = "AND" /\ K = 3 /\ loop.i = 1
    /\ ~SameStr(calls[1].result, calls[2].result)
    /\ ~SameStr(calls[2].result, calls[3].result)
    /\ loop.total_tokens = 2

(***************************************************************************)
(* C2.  An OR unit over strategies s1..sk with query q, in every           *)
(* interleaving and completion order: each si is invoked exactly once with *)
(* q itself, position i of the returned list is the content si returned,   *)
(* and the returned token count is the sum of the k branch token counts.   *)
(***************************************************************************)
C2_BranchInputs(r) ==
    LET u == CallsOf(r)
    IN  /\ Len(u) = K
        /\ \A j \in 1..K :
             /\ u[j].pos = j
             /\ u[j].approach = ctx.approaches[j]
             /\ u[j].system_prompt = ctx.system_prompt
             /\ u[j].model = ctx.model
             /\ SameStr(u[j].query, ctx.initial_query)

C2_UnitReturn(r) ==
    LET u == CallsOf(r)
    IN  /\ \A j \in 1..K :
             /\ u[j].status = "returned"
             /\ u[j].ran \in {"builtin", "plugin"}
             /\ SameStr(loop.responses[(r - 1) * K + j], u[j].result)
        /\ Len(loop.responses) = loop.i * K
        /\ loop.total_tokens = TokensUpTo(loop.i)

C2_OrFanOut ==
    (Executing /\ ctx.operation = "OR") =>
        /\ \A r \in 1..Len(calls) :
             (\E j \in 1..Len(calls) : calls[j].rep = r) => C2_BranchInputs(r)
        /\ \A r \in 1..loop.i : C2_UnitReturn(r)
        /\ Len(calls) \in {loop.i * K, (loop.i + 1) * K}

\* an OR unit of three branches has returned; the branches returned
\* different contents and counted tokens
C2_Witness ==
    /\ Executing /\ ctx.operation = "OR" /\ K = 3 /\ loop.i = 1
    /\ ~SameStr(loop.responses[1], loop.responses[2])
    /\ ~SameStr(loop.responses[2], loop.responses[3])
    /\ loop.total_tokens = 2

(***************************************************************************)
(* C3.  An OR unit waits for all of its branches: when the OR step has     *)
(* ended, by returning its list or by raising a branch's failure, no       *)
(* branch it started is still executing.  A branch is executing while its  *)
(* strategy runs in its thread, and the step is in progress only while the *)
(* worker waits for gather.                                                *)
(***************************************************************************)
C3_StrictBarrier ==
    \A j \in 1..Len(calls) : calls[j].status = "running" => pc = "gather"

(***************************************************************************)
(* C4.  If a branch of an OR unit raises, the unit raises: it never        *)
(* returns a result to execute_n_times, and the response of the request,   *)
(* once there is one, is the error response and carries no content of any  *)
(* branch.                                                                 *)
(***************************************************************************)
C4_OrFailsWhole ==
    (Executing /\ ctx.operation = "OR") =>
        \A j \in 1..Len(calls) :
            calls[j].status = "raised" =>
                /\ loop.i < calls[j].rep
                /\ result = None
                /\ pc \in {"gather", "done"}
                /\ pc = "done" =>
                     /\ response.kind = "error_json"
                     /\ response.status = 500
                     /\ response.error \in {"StrategyError", "UnknownApproach"}

\* the request has been answered with the error while one branch of the unit
\* raised and another returned a content
C4_Witness ==
    /\ Executing /\ ctx.operation = "OR" /\ pc = "done"
    /\ response.kind = "error_json"
    /\ \E j, h \in 1..Len(calls) :
         /\ calls[j].rep = calls[h].rep
         /\ calls[j].status = "raised" /\ calls[j].ran # "nothing"
         /\ calls[h].status = "returned"

(***************************************************************************)
(* C5.  A request whose parsed operator is AND or OR and whose strategies  *)
(* list contains none, at any position, fails with InvalidCombination, and *)
(* no strategy is invoked and no backend call is made for it.              *)
(***************************************************************************)
C5_NoneNotCombined ==
    (/\ Parsed
     /\ ctx.operation \in {"AND", "OR"}
     /\ \E j \in 1..Len(ctx.approaches) : ctx.approaches[j] = <<"none">>)
    => /\ pc = "done"
       /\ response = ErrorJson(500, "InvalidCombination")
       /\ calls = <<>>
       /\ result = None

\* none stands after another slug in an OR list of a rejected request
C5_Witness ==
    /\ Parsed /\ ctx.operation = "OR" /\ Len(ctx.approaches) >= 2
    /\ ctx.approaches[1] # <<"none">>
    /\ ctx.approaches[Len(ctx.approaches)] = <<"none">>
    /\ response = ErrorJson(500, "InvalidCombination")

(***************************************************************************)
(* C6.  execute_n_times with count N >= 0 executes the operator's unit     *)
(* exactly N times, one repetition after the other, each with the same     *)
(* system prompt, query and model, and returns the sum of the token counts *)
(* of all N repetitions.                                                   *)
(***************************************************************************)
\* the calls one unit makes
UnitSize == IF ctx.operation = "SINGLE" THEN 1 ELSE K

\* the calls that start from the query of the request: every branch of an
\* OR unit, the first stage of an AND unit, the call of a SINGLE unit
TakesQuery(c) == ctx.operation = "OR" \/ c.pos = 1

C6_Sequential ==
    \A j, h \in 1..Len(calls) :
        calls[j].rep < calls[h].rep => j < h /\ calls[j].status = "returned"

C6_SameInputs ==
    \A j \in 1..Len(calls) :
        /\ calls[j].system_prompt = ctx.system_prompt
        /\ calls[j].model = ctx.model
        /\ TakesQuery(calls[j]) => SameStr(calls[j].query, ctx.initial_query)

C6_Returned ==
    /\ loop.i = ctx.n
    /\ \A r \in 1..ctx.n :
         /\ Len(CallsOf(r)) = UnitSize
         /\ \A j \in 1..UnitSize : CallsOf(r)[j].status = "returned"
    /\ Len(calls) = ctx.n * UnitSize
    /\ result.completion_tokens = TokensUpTo(ctx.n)

C6_Repetitions ==
    Executing =>
        /\ C6_Sequential
        /\ C6_SameInputs
        /\ result # None => C6_Returned

\* two repetitions of an AND unit of two stages have returned four tokens
C6_Witness ==
    /\ Executing /\ result # None
    /\ ctx.n = 2 /\ ctx.operation = "AND" /\ Len(calls) = 4
    /\ result.completion_tokens = 3
    /\ calls[1].tokens = 0

(***************************************************************************)
(* C7.  The aggregate after N repetitions: for SINGLE or AND the bare      *)
(* content when N = 1, otherwise the list of the N contents in repetition  *)
(* order; for OR over k strategies the flat list of the N*k contents       *)
(* ordered by repetition and then by position, never nested, except the    *)
(* bare content when N = 1 and k = 1; for N = 0 the empty list.            *)
(***************************************************************************)
\* the content repetition r produced at position j of its unit
ContentOf(r, j) == CallsOf(r)[j].result

C7_SingleOrAnd ==
    LET last == UnitSize
    IN  IF ctx.n = 1
        THEN SameStr(result.response, ContentOf(1, last))
        ELSE /\ IsList(result.response)
             /\ Len(result.response.val) = ctx.n
             /\ \A r \in 1..ctx.n :
                  SameStr(result.response.val[r], ContentOf(r, last))

C7_Or ==
    IF ctx.n = 1 /\ K = 1
    THEN SameStr(result.response, ContentOf(1, 1))
    ELSE /\ IsList(result.response)
         /\ Len(result.response.val) = ctx.n * K
         /\ \A r \in 1..ctx.n : \A j \in 1..K :
              SameStr(result.response.val[(r - 1) * K + j], ContentOf(r, j))

C7_AggregateShape ==
    (Executing /\ result # None) =>
        /\ ctx.operation \in {"SINGLE", "AND"} => C7_SingleOrAnd
        /\ ctx.operation = "OR" => C7_Or
        /\ ctx.n = 0 => IsList(result.response) /\ result.response.val = <<>>

\* two repetitions of an OR unit of two branches have returned four contents,
\* not all the same
C7_Witness ==
    /\ Executing /\ result # None
    /\ ctx.operation = "OR" /\ ctx.n = 2 /\ K = 2
    /\ Len(result.response.val) = 4
    /\ ~SameStr(result.response.val[2], result.response.val[3])
    /\ ~SameStr(result.response.val[1], result.response.val[2])

(***************************************************************************)
(* C8.  When a strategy invocation raises during any repetition, the whole *)
(* request is aborted: no later stage of an AND chain and no later         *)
(* repetition is started, the failed invocation is not retried, the        *)
(* contents of earlier stages and repetitions are discarded, and the       *)
(* caller receives exactly one failure.                                    *)
(***************************************************************************)
\* the invocation logged at j has raised: what the log and the request look
\* like from then on
C8_Aborted(j) ==
    /\ \A h \in 1..Len(calls) :
         /\ calls[h].rep <= calls[j].rep
         /\ ctx.operation = "AND" => calls[h].pos <= calls[j].pos \/ h < j
         /\ (calls[h].rep = calls[j].rep /\ calls[h].pos = calls[j].pos)
                => h = j
    /\ ctx.operation \in {"SINGLE", "AND"} => j = Len(calls)
    /\ result = None
    /\ pc = "done" \/ (ctx.operation = "OR" /\ pc = "gather")
    /\ pc = "done" =>
         /\ response.kind = "error_json" /\ response.status = 500
         /\ \E h \in 1..Len(calls) :
              calls[h].status = "raised" /\ response.error = calls[h].error

C8_State ==
    \A j \in 1..Len(calls) : calls[j].status = "raised" => C8_Aborted(j)

\* the response a request has got is not replaced
C8_Step == (response # None /\ pc' = "done") => response' = response

C8_RaiseAborts == []C8_State /\ [][C8_Step]_vars

\* the second stage of the second repetition of an AND chain has raised,
\* after three invocations that returned
C8_Witness ==
    /\ Executing /\ ctx.operation = "AND" /\ ctx.n = 2 /\ Len(calls) = 4
    /\ calls[4].status = "raised" /\ calls[4].rep = 2 /\ calls[4].pos = 2
    /\ \A j \in 1..3 : calls[j].status = "returned"
    /\ pc = "done" /\ response = ErrorJson(500, "StrategyError")

(***************************************************************************)
(* C9.  Every exception raised while the gateway handles an authenticated  *)
(* chat-completion request - in conversation parsing, client selection,    *)
(* identifier parsing, execution, normalisation or rendering - yields a    *)
(* JSON body {error: message} with a server-error status: none of them     *)
(* leaves proxy uncaught to be answered by the framework's error page.     *)
(***************************************************************************)
C9_ErrorsAreJson ==
    (pc = "done" /\ response.status >= 500 /\ response.kind # "error_json")
        => response.raised_in # "proxy"

(***************************************************************************)
(* C10.  With an operator key configured, a request to a path other than   *)
(* the health check whose Authorization header is missing, not a Bearer    *)
(* credential, or carries another key is answered 401 and no parsing or    *)
(* strategy logic runs for it; every other request passes the hook: the    *)
(* matching key, the health check, and any request when no key is          *)
(* configured.                                                             *)
(***************************************************************************)
\* the request carries the configured key as a Bearer credential
C10_Matching(req, key) ==
    /\ req.Authorization # None
    /\ Len(req.Authorization.val) >= 3
    /\ SubSeq(req.Authorization.val, 1, 2) = <<"Bearer", " ">>
    /\ strip(SubSeq(req.Authorization.val, 3, Len(req.Authorization.val))) = key

C10_Authentication ==
    (incoming # None /\ pc # "before_request") =>
        IF /\ server_config.optillm_api_key # <<>>
           /\ incoming.path # "/health"
           /\ ~C10_Matching(incoming, server_config.optillm_api_key)
        THEN /\ pc = "done"
             /\ response.kind = "error_json" /\ response.status = 401
             /\ ctx = None /\ calls = <<>>
        ELSE pc = "dispatch" /\ response = None

(***************************************************************************)
(* C14.  For every request executed under SINGLE the strategies list of    *)
(* the parser holds exactly one slug, the unit makes one call per          *)
(* repetition to that strategy, and so every strategy the request named    *)
(* is invoked.                                                             *)
(***************************************************************************)
C14_SingleSoleStrategy ==
    (Parsed /\ ctx.operation = "SINGLE") =>
        /\ Len(ctx.approaches) = 1
        /\ \A j \in 1..Len(calls) : calls[j].approach = ctx.approaches[1]
        /\ (Executing /\ result # None) =>
              /\ Len(calls) = ctx.n
              /\ ctx.n >= 1 =>
                   \A i \in 1..Len(ctx.approaches) :
                       \E j \in 1..Len(calls) :
                           calls[j].approach = ctx.approaches[i]

(***************************************************************************)
(* The parser on its own: proxy's line 627 applied to any identifier, with *)
(* any registry.  ctx holds the local `model` before the line and the      *)
(* identifier, operation, approaches and model after it.                   *)
(***************************************************************************)
MaxParts == 3

\* the '-'-separated tokens identifiers are made of: built-in slugs, a
\* registered slug, model names, operator tokens, the empty token
ParseTokens ==
    { <<"mcts">>, <<"bon">>, <<"none">>, <<"plug">>, <<"gpt">>, <<"auto">>,
      <<"mcts", "&", "plug">>, <<"plug", "|", "bon">>, <<"mcts", "&">>,
      <<"mcts", "&", "plug", "|", "bon">>, <<"gpt", "|", "none">>, << >> }

RECURSIVE Identifiers(_)
Identifiers(k) ==
    IF k = 1 THEN ParseTokens
    ELSE Identifiers(k - 1) \cup
         { id \o <<"-">> \o t : id \in Identifiers(k - 1), t \in ParseTokens }

\* registries: empty, the installed one, and one with a slug that holds &
ParseRegistries ==
    { << >>,
      load_plugins(<< >>, InstalledPlugins),
      (<<"mcts", "&", "plug">> :>
           Callable("cwd/optillm/plugins", "combo_plugin.py"))
          @@ load_plugins(<< >>, InstalledPlugins) }

ParseInit ==
    /\ server_config \in
         [ approach : {<<"auto">>}, n : {1},
           model : {<<"gpt", "-", "4o", "-", "mini">>},
           optillm_api_key : {<< >>},
           mcts_simulations : {StartupTuning.mcts_simulations},
           mcts_exploration : {StartupTuning.mcts_exploration},
           mcts_depth : {StartupTuning.mcts_depth} ]
    /\ plugin_dirs = InstalledPlugins
    /\ plugin_approaches \in ParseRegistries
    /\ pc = "parse_combined_approach"
    /\ incoming = None
    /\ ctx \in { [model |-> id] : id \in Identifiers(MaxParts) }
    /\ loop = NoLoop
    /\ chain = NoChain
    /\ outer = None
    /\ result = None
    /\ calls = <<>>
    /\ response = None
    /\ loops = {}
    /\ threads = <<>>

\* line 627
parse ==
    /\ pc = "parse_combined_approach"
    /\ LET r == parse_combined_approach(ctx.model, known_approaches,
                                        plugin_approaches)
       IN  ctx' = [identifier |-> ctx.model, operation |-> r.operation,
                   approaches |-> r.approaches, model |-> r.model]
    /\ pc' = "parsed"
    /\ UNCHANGED <<threads, loops, server_config, plugin_dirs, plugin_approaches, incoming, loop,
                   chain, outer, result, calls, response>>

ParseSpec == ParseInit /\ [][parse]_vars

(***************************************************************************)
(* The reference scan of C11, from the tokens of the identifier.           *)
(***************************************************************************)
Tokens(id) == split(id, "-")

IsSlug(t) == t \in known_approaches \/ t \in DOMAIN plugin_approaches

HasOperator(t) == Contains(t, "&") \/ Contains(t, "|")

IsStrategyToken(t) == IsSlug(t) \/ HasOperator(t)

\* the length of the longest leading run of strategy tokens
RunLength(id) ==
    CHOOSE k \in 0..Len(Tokens(id)) :
        /\ \A i \in 1..k : IsStrategyToken(Tokens(id)[i])
        /\ k < Len(Tokens(id)) => ~IsStrategyToken(Tokens(id)[k + 1])

Contribution(t) ==
    IF IsSlug(t) THEN << t >>
    ELSE IF Contains(t, "&") THEN split(t, "&")
    ELSE split(t, "|")

RunStrategies(id) ==
    Flatten([i \in 1..RunLength(id) |-> Contribution(Tokens(id)[i])])

\* the positions of the run that hold an operator-bearing token
OperatorPositions(id) ==
    { i \in 1..RunLength(id) :
        ~IsSlug(Tokens(id)[i]) /\ HasOperator(Tokens(id)[i]) }

RunOperator(id) ==
    IF OperatorPositions(id) = {} THEN "SINGLE"
    ELSE LET last == CHOOSE i \in OperatorPositions(id) :
                         \A h \in OperatorPositions(id) : h <= i
         IN  IF Contains(Tokens(id)[last], "&") THEN "AND" ELSE "OR"

BaseModel(id) ==
    join("-", SubSeq(Tokens(id), RunLength(id) + 1, Len(Tokens(id))))

ParsedIdentifier == pc = "parsed"

(***************************************************************************)
(* C11 as stated.  For every model string other than auto, parse equals    *)
(* the reference scan: the strategies are what the longest leading run of  *)
(* strategy tokens contributes, the operator is that of the last           *)
(* operator-bearing token of the run (SINGLE if none), the base model is   *)
(* the rest rejoined with '-'.                                             *)
(***************************************************************************)
C11_AsStated ==
    (ParsedIdentifier /\ ctx.identifier # <<"auto">>) =>
        /\ ctx.approaches = RunStrategies(ctx.identifier)
        /\ ctx.operation = RunOperator(ctx.identifier)
        /\ ctx.model = BaseModel(ctx.identifier)

(***************************************************************************)
(* C11, amended.  As above when the run is not empty; when the identifier  *)
(* has no leading strategy token the strategies list is [none], not the    *)
(* empty list.                                                             *)
(***************************************************************************)
C11_ReferenceScan ==
    (ParsedIdentifier /\ ctx.identifier # <<"auto">>) =>
        /\ ctx.approaches = IF RunLength(ctx.identifier) = 0
                            THEN << <<"none">> >>
                            ELSE RunStrategies(ctx.identifier)
        /\ ctx.operation = RunOperator(ctx.identifier)
        /\ ctx.model = BaseModel(ctx.identifier)

\* a run of one token that holds both & and |, then a model name, then a
\* slug that belongs to the base model
C11_Witness ==
    /\ ParsedIdentifier
    /\ ctx.identifier = <<"mcts", "&", "plug", "|", "bon", "-", "gpt", "-",
                          "mcts">>
    /\ ctx.operation = "AND"
    /\ ctx.approaches = << <<"mcts">>, <<"plug", "|", "bon">> >>
    /\ ctx.model = <<"gpt", "-", "mcts">>

(***************************************************************************)
(* C12.  parse of auto is (SINGLE, [none], auto); and for every model      *)
(* string whose first token is neither a slug nor holds & or |, parse is   *)
(* (SINGLE, [none], the model string unchanged), whatever follows.         *)
(***************************************************************************)
C12_NoStrategyToken ==
    (/\ ParsedIdentifier
     /\ \/ ctx.identifier = <<"auto">>
        \/ ~IsStrategyToken(Tokens(ctx.identifier)[1]))
    => /\ ctx.operation = "SINGLE"
       /\ ctx.approaches = << <<"none">> >>
       /\ ctx.model = ctx.identifier

\* a model name followed by an operator token and a slug
C12_Witness ==
    /\ ParsedIdentifier
    /\ ctx.identifier = <<"gpt", "-", "mcts", "&", "plug", "-", "bon">>
    /\ ctx.model = ctx.identifier

(***************************************************************************)
(* C13.  For every model string and every registry, the strategies list    *)
(* parse returns is not empty, and if it is exactly [none] the operator is *)
(* SINGLE.                                                                 *)
(***************************************************************************)
C13_NonEmptyStrategies ==
    ParsedIdentifier =>
        /\ ctx.approaches # << >>
        /\ ctx.approaches = << <<"none">> >> => ctx.operation = "SINGLE"

\* [none] by default after nothing was recognised, with a later operator
\* token that is part of the base model
C13_Witness ==
    /\ ParsedIdentifier
    /\ ctx.identifier = <<"gpt", "-", "gpt", "|", "none">>
    /\ ctx.approaches = << <<"none">> >>
    /\ DOMAIN plugin_approaches # {}

(***************************************************************************)
(* The rendering on its own: lines 665-710 of proxy applied to any         *)
(* aggregate execute_n_times may have returned.                            *)
(***************************************************************************)
MaxElements == 2

\* contents with and without markers, with whitespace at the ends, with a
\* last turn of the assistant and with a last turn of the user
RenderContents ==
    { Str(<<"r1">>),
      Str(<<" ", "r1", "\n">>),
      Str(<<"User:", " ", "hi", "\n", "Assistant:", " ", "r2">>),
      Str(<<"Assistant:", " ", "r3", "\n", "User:", " ", "bye">>),
      Str(<<"Assistant:", " ", "a1", "\n", "Assistant:", " ", "a2", "\n">>),
      Str(<<"intro", " ", "Assistant:", "r4">>) }

RECURSIVE ContentLists(_)
ContentLists(k) ==
    IF k = 0 THEN { << >> }
    ELSE ContentLists(k - 1) \cup
         { Append(l, c) : l \in ContentLists(k - 1), c \in RenderContents }

Aggregates == RenderContents \cup { List(l) : l \in ContentLists(MaxElements) }

RenderInit ==
    /\ server_config \in
         [ approach : {<<"auto">>}, n : {1},
           model : {<<"gpt", "-", "4o", "-", "mini">>},
           optillm_api_key : {<< >>},
           mcts_simulations : {StartupTuning.mcts_simulations},
           mcts_exploration : {StartupTuning.mcts_exploration},
           mcts_depth : {StartupTuning.mcts_depth} ]
    /\ plugin_dirs = InstalledPlugins
    /\ plugin_approaches = load_plugins(<< >>, InstalledPlugins)
    /\ pc = "render"
    /\ incoming = None
    /\ ctx = [operation |-> "SINGLE", approaches |-> << <<"mcts">> >>,
              model |-> <<"gpt">>, n |-> 1, system_prompt |-> << >>,
              initial_query |-> Str(<<"User:", " ", "hi">>)]
    /\ loop = NoLoop
    /\ chain = NoChain
    /\ outer = None
    /\ result \in [response : Aggregates, completion_tokens : TokenCounts]
    /\ calls = <<>>
    /\ response = None
    /\ loops = {}
    /\ threads = <<>>

RenderSpec == RenderInit /\ [][render]_vars

\* the request has been answered with a completion or an event stream
Rendered ==
    pc = "done" /\ result # None /\ response.kind \in {"completion", "event_stream"}

\* the elements of an aggregate: those of a list, or the bare content
Elements(agg) == IF IsList(agg) THEN agg.val ELSE << agg >>

\* the contents the caller gets, in the order of the choices or the frames
RenderedContents ==
    IF response.kind = "completion"
    THEN [k \in 1..Len(response.body.choices) |-> response.body.choices[k].content]
    ELSE [k \in 1..(Len(response.frames) - 1) |-> response.frames[k].delta]

HasMarker(t) == \E i \in 1..Len(t) : t[i] \in {"User:", "Assistant:"}

HasAssistant(t) == \E i \in 1..Len(t) : t[i] = "Assistant:"

\* the content of the last assistant-role entry of a transcript: the text
\* between the last Assistant: marker and the next marker or the end
LastAssistantContent(t) ==
    LET i == CHOOSE i \in 1..Len(t) :
                 t[i] = "Assistant:" /\ \A h \in (i + 1)..Len(t) : t[h] # "Assistant:"
        later == { j \in (i + 1)..Len(t) : t[j] = "User:" }
        stop == IF later = {} THEN Len(t) + 1
                ELSE CHOOSE j \in later : \A h \in later : j <= h
    IN  strip(SubSeq(t, i + 1, stop - 1))

(***************************************************************************)
(* C15.  For every result string that holds a marker, the content rendered *)
(* is the content of the last assistant-role entry of the transcript, also *)
(* when the last entry is a user turn; in a list, element by element.      *)
(***************************************************************************)
C15_LastAssistantEntry ==
    Rendered =>
        /\ Len(RenderedContents) = Len(Elements(result.response))
        /\ \A k \in 1..Len(RenderedContents) :
             LET e == Elements(result.response)[k]
             IN  HasAssistant(e.val) =>
                     SameStr(RenderedContents[k], Str(LastAssistantContent(e.val)))

(***************************************************************************)
(* C16.  A result string without a marker is rendered unchanged; in a list *)
(* every element without a marker is rendered unchanged at its position,   *)
(* whatever the other elements hold; normalisation changes neither the     *)
(* number nor the order of the elements.                                   *)
(***************************************************************************)
C16_UnmarkedUnchanged ==
    Rendered =>
        /\ Len(RenderedContents) = Len(Elements(result.response))
        /\ \A k \in 1..Len(RenderedContents) :
             LET e == Elements(result.response)[k]
             IN  ~HasMarker(e.val) => SameStr(RenderedContents[k], e)

\* a list of a transcript and of a text with whitespace at its ends
C16_Witness ==
    /\ Rendered
    /\ IsList(result.response)
    /\ Len(result.response.val) = 2
    /\ HasMarker(result.response.val[1].val)
    /\ result.response.val[2] = Str(<<" ", "r1", "\n">>)
    /\ RenderedContents[2] = Str(<<" ", "r1", "\n">>)
    /\ RenderedContents[1] # result.response.val[1]

(***************************************************************************)
(* C17.  Streaming an aggregate of m elements emits exactly m content      *)
(* frames in order, frame i with index i, the whole content of element i   *)
(* as one delta and finish reason stop, then exactly one terminal          *)
(* sentinel, and nothing after it.                                         *)
(***************************************************************************)
Sentinel == [done |-> TRUE]

C17_StreamFrames ==
    (Rendered /\ response.kind = "event_stream") =>
        LET e == Elements(Normalise(result.response))
            f == response.frames
        IN  /\ Len(f) = Len(e) + 1
            /\ f[Len(f)] = Sentinel
            /\ \A k \in 1..Len(e) :
                 /\ f[k] # Sentinel
                 /\ f[k].index = k - 1
                 /\ SameStr(f[k].delta, e[k])
                 /\ f[k].finish_reason = "stop"

\* a list of two contents has been streamed
C17_Witness ==
    /\ Rendered /\ response.kind = "event_stream"
    /\ IsList(result.response) /\ Len(result.response.val) = 2
    /\ Len(response.frames) = 3
    /\ response.frames[2].index = 1
    /\ response.frames[1].delta # response.frames[2].delta

(***************************************************************************)
(* C19.  Non-streaming rendering gives a completion with exactly one       *)
(* choice per element, in order, choice i with index i, role assistant,    *)
(* the element's content and finish reason stop (a bare content gives one  *)
(* choice with index 0), and usage.completion_tokens is the aggregate      *)
(* token count.                                                            *)
(***************************************************************************)
C19_CompletionChoices ==
    (Rendered /\ response.kind = "completion") =>
        LET e == Elements(Normalise(result.response))
            c == response.body.choices
        IN  /\ Len(c) = Len(e)
            /\ \A k \in 1..Len(e) :
                 /\ c[k].index = k - 1
                 /\ c[k].role = "assistant"
                 /\ SameStr(c[k].content, e[k])
                 /\ c[k].finish_reason = "stop"
            /\ response.body.completion_tokens = result.completion_tokens

\* a list of two contents and a token count that is not 0
C19_Witness ==
    /\ Rendered /\ response.kind = "completion"
    /\ IsList(result.response) /\ Len(result.response.val) = 2
    /\ Len(response.body.choices) = 2
    /\ response.body.choices[2].index = 1
    /\ response.body.completion_tokens = 1

(***************************************************************************)
(* C18.  For every successful streamed chat-completion request, also a     *)
(* passthrough request whose backend response holds several choices or a   *)
(* choice with an empty content, the event stream holds one content frame  *)
(* per choice of the completion non-streaming mode would return for the    *)
(* same result, followed by one terminal sentinel.                         *)
(***************************************************************************)
\* the contents of the choices of the completion that non-streaming mode
\* returns: the backend's completion as it is for a passthrough request,
\* one choice per element of the normalised aggregate otherwise
CompletionContents ==
    IF Route(ctx) = "passthrough" THEN calls[1].result.val
    ELSE Elements(Normalise(result.response))

C18_FramePerChoice ==
    (pc = "done" /\ Parsed /\ response.kind = "event_stream") =>
        /\ Len(response.frames) = Len(CompletionContents) + 1
        /\ response.frames[Len(response.frames)] = Sentinel
        /\ \A k \in 1..Len(CompletionContents) :
             /\ response.frames[k] # Sentinel
             /\ SameStr(response.frames[k].delta, CompletionContents[k])

(***************************************************************************)
(* load_plugins() on its own: a reload of the registry, whatever it held,  *)
(* from any content of the two plugin directories.                         *)
(***************************************************************************)
MaxFiles == 2

PackageDir == "site-packages/optillm/plugins"
LocalDir == "cwd/optillm/plugins"

\* plugin files: two valid ones, one that raises when executed, one without
\* run, one without SLUG
PluginFiles ==
    { PluginModule("plug_plugin.py", FALSE, TRUE, <<"plug">>, TRUE),
      PluginModule("memory_plugin.py", FALSE, TRUE, <<"memory">>, TRUE),
      PluginModule("broken_plugin.py", TRUE, TRUE, <<"plug">>, TRUE),
      PluginModule("norun_plugin.py", FALSE, TRUE, <<"plug">>, FALSE),
      PluginModule("noslug_plugin.py", FALSE, FALSE, << >>, TRUE) }

\* what glob may return for a directory: up to MaxFiles files, in any order
RECURSIVE Globs(_)
Globs(k) ==
    IF k = 0 THEN { << >> }
    ELSE Globs(k - 1) \cup
         { Append(l, f) : l \in Globs(k - 1), f \in PluginFiles }

DistinctFiles(l) == \A i, j \in 1..Len(l) : l[i].file = l[j].file => i = j

DirContents == { l \in Globs(MaxFiles) : DistinctFiles(l) }

\* the file system: the local directory is the package directory or another
\* one, and each directory is missing or holds files
PluginDirs ==
    { [package_plugin_dir |-> PackageDir, local_plugin_dir |-> local,
       exists |-> ex, glob |-> g] :
        local \in {PackageDir, LocalDir},
        ex \in SUBSET {PackageDir, LocalDir},
        g \in [{PackageDir, LocalDir} -> DirContents] }

\* what the registry holds before the reload
PriorRegistries ==
    { << >>,
      (<<"plug">> :> Callable(PackageDir, "plug_plugin.py")),
      (<<"old">> :> Callable(LocalDir, "old_plugin.py")) @@
      (<<"plug">> :> Callable(LocalDir, "plug_plugin.py")) }

PluginsInit ==
    /\ server_config \in
         [ approach : {<<"auto">>}, n : {1},
           model : {<<"gpt", "-", "4o", "-", "mini">>},
           optillm_api_key : {<< >>},
           mcts_simulations : {StartupTuning.mcts_simulations},
           mcts_exploration : {StartupTuning.mcts_exploration},
           mcts_depth : {StartupTuning.mcts_depth} ]
    /\ plugin_dirs \in PluginDirs
    /\ plugin_approaches \in PriorRegistries
    /\ pc = "load_plugins"
    /\ incoming = None
    /\ ctx = None
    /\ loop = NoLoop
    /\ chain = NoChain
    /\ outer = None
    /\ result = None
    /\ calls = <<>>
    /\ response = None
    /\ loops = {}
    /\ threads = <<>>

\* load_plugins() is called (line 828)
reload ==
    /\ pc = "load_plugins"
    /\ plugin_approaches' = load_plugins(plugin_approaches, plugin_dirs)
    /\ pc' = "loaded"
    /\ UNCHANGED <<threads, loops, server_config, plugin_dirs, incoming, ctx, loop, chain, outer,
                   result, calls, response>>

PluginsSpec == PluginsInit /\ [][reload]_vars

\* the files of a directory that are loadable modules declaring the slug:
\* they execute without raising and have both SLUG, equal to the slug, and
\* run
Declaring(dir, slug) ==
    IF dir \notin plugin_dirs.exists THEN {}
    ELSE { plugin_dirs.glob[dir][i].file : i \in
             { i \in 1..Len(plugin_dirs.glob[dir]) :
                 LET m == plugin_dirs.glob[dir][i]
                 IN  ~m.raises /\ m.has_SLUG /\ m.has_run /\ m.SLUG = slug } }

Bundled(slug) == Declaring(plugin_dirs.package_plugin_dir, slug)

Local(slug) == Declaring(plugin_dirs.local_plugin_dir, slug)

Slugs == { <<"plug">>, <<"memory">>, <<"old">>, << >> }

(***************************************************************************)
(* C20.  After a reload, a slug declared by a loadable module in both the  *)
(* bundled and the local directory resolves to the local module's          *)
(* callable, a slug declared in only one of them resolves to that          *)
(* module's callable, and the registry holds no entry the scan did not     *)
(* find.                                                                   *)
(***************************************************************************)
C20_LocalOverrides ==
    pc = "loaded" =>
        /\ DOMAIN plugin_approaches \subseteq Slugs
        /\ \A slug \in Slugs :
             IF Local(slug) # {}
             THEN /\ slug \in DOMAIN plugin_approaches
                  /\ plugin_approaches[slug].plugin_dir = plugin_dirs.local_plugin_dir
                  /\ plugin_approaches[slug].file \in Local(slug)
             ELSE IF Bundled(slug) # {}
             THEN /\ slug \in DOMAIN plugin_approaches
                  /\ plugin_approaches[slug].plugin_dir = plugin_dirs.package_plugin_dir
                  /\ plugin_approaches[slug].file \in Bundled(slug)
             ELSE slug \notin DOMAIN plugin_approaches

\* plug is declared in both directories, memory only in the bundled one
C20_Witness ==
    /\ pc = "loaded"
    /\ plugin_dirs.local_plugin_dir # plugin_dirs.package_plugin_dir
    /\ Bundled(<<"plug">>) # {} /\ Local(<<"plug">>) # {}
    /\ Bundled(<<"memory">>) # {} /\ Local(<<"memory">>) = {}
    /\ plugin_approaches =
         (<<"plug">> :> Callable(LocalDir, "plug_plugin.py")) @@
         (<<"memory">> :> Callable(PackageDir, "memory_plugin.py"))

\* the files of a directory that fail to load or lack SLUG or run
Failing(dir) ==
    IF dir \notin plugin_dirs.exists THEN {}
    ELSE { i \in 1..Len(plugin_dirs.glob[dir]) :
             LET m == plugin_dirs.glob[dir][i]
             IN  m.raises \/ ~m.has_SLUG \/ ~m.has_run }

(***************************************************************************)
(* C21.  A reload always completes, and whatever modules raise while       *)
(* loading or lack SLUG or run, every slug that a loadable module of a     *)
(* scanned directory declares is registered afterwards, with the callable  *)
(* of a loadable module declaring it, wherever the failing modules stand   *)
(* in the scan.                                                            *)
(***************************************************************************)
C21_FailuresIsolated ==
    /\ pc \in {"load_plugins", "loaded"}
    /\ pc = "loaded" =>
         \A slug \in Slugs :
           Bundled(slug) \cup Local(slug) # {} =>
             /\ slug \in DOMAIN plugin_approaches
             /\ plugin_approaches[slug].file \in
                  Declaring(plugin_approaches[slug].plugin_dir, slug)

\* in the bundled directory a module that raises is scanned before a valid
\* one, in the local directory a module without SLUG after a valid one
C21_Witness ==
    /\ pc = "loaded"
    /\ plugin_dirs.local_plugin_dir = LocalDir
    /\ plugin_dirs.exists = {PackageDir, LocalDir}
    /\ Failing(PackageDir) = {1} /\ Bundled(<<"memory">>) # {}
    /\ Failing(LocalDir) = {2} /\ Local(<<"plug">>) # {}
    /\ DOMAIN plugin_approaches = { <<"plug">>, <<"memory">> }

(***************************************************************************)
(* The event loops of a request.                                           *)
(***************************************************************************)
\* the calls that have begun to run a registered coroutine function
AsyncCalls ==
    { j \in 1..Len(calls) :
        /\ calls[j].status # "submitted"
        /\ RunsOnLoop(calls[j].approach, plugin_approaches) }

\* the event loops created for the call
LoopsOf(call) ==
    { l \in loops : /\ l.created_by = "execute_single_approach"
                    /\ l.rep = call.rep /\ l.pos = call.pos }

C29_OrLoopClosed ==
    /\ \A l \in loops :
         l.created_by = "execute_n_times" =>
           \/ pc = "gather" /\ l.rep = loop.i + 1
           \/ l.closed
    /\ pc = "gather" =>
         Cardinality({ l \in loops : /\ l.created_by = "execute_n_times"
                                     /\ l.rep = loop.i + 1 }) = 1

\* the slugs a directive names
NamedBy(directive) ==
    { << directive[i] >> :
        i \in { k \in 1..Len(directive) : directive[k] \notin {"&", "|", "-"} } }

(***************************************************************************)
(* C25.  When a message of the request carries a directive, every strategy *)
(* that is executed for the request is one the directive names: no slug    *)
(* that stands only in the model identifier is run.                        *)
(***************************************************************************)
C25_DirectiveOverrides ==
    (ctx # None /\ Truthy(ctx.message_optillm_approach)) =>
        \A j \in 1..Len(calls) :
            calls[j].ran # "nothing" =>
                calls[j].approach \in NamedBy(ctx.message_optillm_approach.val)

(***************************************************************************)
(* The none branch on its own: the worker is about to pass a request       *)
(* through (line 645), for request bodies with list contents and a field   *)
(* the gateway does not consume.                                           *)
(***************************************************************************)
\* content parts: text parts and an image part
TextPart(text) == [type |-> "text", text |-> text]
ImagePart == [type |-> "image_url"]

NoneMessageLists ==
    { << [role |-> "user", content |-> Str(<<"hi">>)] >>,
      << [role |-> "system", content |-> Str(<<"brief">>)],
         [role |-> "user",
          content |-> List(<< TextPart(<<"look">>), ImagePart,
                              TextPart(<<"here">>) >>)] >>,
      << [role |-> "user", content |-> List(<< ImagePart >>)],
         [role |-> "assistant", content |-> Str(<<"r1">>)] >>,
      << [role |-> "user",
          content |-> Str(<<TagOpen, "none", TagClose, " ", "hi">>)] >>,
      << [role |-> "user",
          content |-> Str(<<TagOpen, "none", TagClose, " ", "hi">>)],
         [role |-> "assistant", content |-> Str(<<"r1">>)],
         [role |-> "user",
          content |-> Str(<<TagOpen, "none", TagClose, " ", "again">>)] >> }

NoneBodies ==
    { body @@ tuning :
        body \in [ model : { None, Str(<<"none", "-", "gpt">>) },
                   optillm_approach : { None, Str(<<"none">>) },
                   n : NFields,
                   messages : NoneMessageLists,
                   temperature : { None, [type |-> "float", val |-> "0.7"] } ],
        tuning \in TuningFields }

NoneInit ==
    /\ \E data \in NoneBodies :
         /\ server_config \in
              { WriteTuning(config, data) : config \in
                  [ approach : {<<"auto">>}, n : {1},
                    model : {<<"gpt", "-", "4o", "-", "mini">>},
                    optillm_api_key : {<< >>},
                    mcts_simulations : {StartupTuning.mcts_simulations},
                    mcts_exploration : {StartupTuning.mcts_exploration},
                    mcts_depth : {StartupTuning.mcts_depth} ] }
         /\ ctx = proxy_locals(data, server_config,
                               load_plugins(<< >>, InstalledPlugins))
         /\ Route(ctx) = "passthrough"
         /\ incoming = [path |-> "/v1/chat/completions",
                        Authorization |-> None, json |-> data]
    /\ plugin_dirs = InstalledPlugins
    /\ plugin_approaches = load_plugins(<< >>, InstalledPlugins)
    /\ pc = "passthrough"
    /\ loop = NoLoop
    /\ chain = NoChain
    /\ outer = None
    /\ result = None
    /\ calls = <<>>
    /\ response = None
    /\ loops = {}
    /\ threads = <<>>

NoneSpec == NoneInit /\ [][passthrough]_vars

\* the request has been passed through
PassedThrough == pc = "done" /\ calls # <<>>

\* the fields of the body that the gateway consumes itself
Consumed == {"model", "messages", "stream", "optillm_approach"}

\* one backend call, with every field of the body that is not consumed, with
\* token count 0, and with its exception as the error of the response
C26_OneCallAllFields ==
    LET data == incoming.json
        call == calls[1]
    IN  /\ Len(calls) = 1
        /\ call.ran = "backend"
        /\ call.tokens = 0
        /\ DOMAIN call.backend.kwargs \subseteq DOMAIN data \ Consumed
        /\ \A k \in DOMAIN data \ Consumed :
             IF data[k] = None THEN k \notin DOMAIN call.backend.kwargs
             ELSE /\ k \in DOMAIN call.backend.kwargs
                  /\ call.backend.kwargs[k] = data[k]
        /\ data.n # None => call.backend.kwargs["n"].val = ctx.n
        /\ call.status = "raised" =>
             /\ call.error = "BackendError"
             /\ response = ErrorJson(500, "BackendError")
        /\ call.status = "returned" => response.status = 200

(***************************************************************************)
(* C26 as stated.  A request run as SINGLE none makes one backend call     *)
(* whatever n is; the call carries the message list of the request as it   *)
(* came and every field except model, messages, stream and                 *)
(* optillm_approach; its token count is 0; an exception of the backend     *)
(* reaches the except clause of proxy unchanged.                           *)
(***************************************************************************)
C26_AsStated ==
    PassedThrough =>
        /\ C26_OneCallAllFields
        /\ calls[1].backend.messages = incoming.json.messages

(***************************************************************************)
(* C26.  The same, with the messages as the backend gets them: every       *)
(* message of the request in its place, a content that is a list replaced  *)
(* by the text of its text parts joined by spaces, every other content as  *)
(* it came.                                                                *)
(***************************************************************************)
C26_PassthroughCall ==
    PassedThrough =>
        /\ C26_OneCallAllFields
        /\ LET sent == calls[1].backend.messages
               came == incoming.json.messages
           IN  /\ Len(sent) = Len(came)
               /\ \A k \in 1..Len(came) :
                    /\ sent[k].role = came[k].role
                    /\ IF IsList(came[k].content)
                       THEN sent[k].content = Str(JoinTextParts(
                                SelectSeq(came[k].content.val,
                                          LAMBDA it : it.type = "text")))
                       ELSE sent[k].content = came[k].content

\* n = 2, a temperature and a content with two text parts and an image: one
\* call, with n and the temperature, and the two texts joined
C26_Witness ==
    /\ PassedThrough
    /\ ctx.n = 2
    /\ Len(calls) = 1 /\ calls[1].status = "returned"
    /\ DOMAIN calls[1].backend.kwargs = {"n", "temperature"}
    /\ \E k \in 1..Len(calls[1].backend.messages) :
         calls[1].backend.messages[k].content = Str(<<"look", " ", "here">>)

(***************************************************************************)
(* C24.  No text used as prompt content holds a paired directive tag: not  *)
(* the system prompt, not the query proxy hands to the strategies, not a   *)
(* message sent to the backend, also when several messages carry a tag and *)
(* when the strategy is none.                                              *)
(***************************************************************************)
C24_NoTagInPrompt ==
    PassedThrough =>
        /\ ~HasMatch(ctx.system_prompt)
        /\ ~HasMatch(ctx.initial_query.val)
        /\ \A j \in 1..Len(calls) :
             /\ ~HasMatch(calls[j].query.val)
             /\ \A k \in 1..Len(calls[j].backend.messages) :
                  IsStr(calls[j].backend.messages[k].content) =>
                     ~HasMatch(calls[j].backend.messages[k].content.val)

(***************************************************************************)
(* Dispatch on its own: execute_n_times is entered (line 659) for SINGLE   *)
(* and AND requests, under registries in which a plugin declares the slug  *)
(* of a built-in strategy, a slug of its own, or nothing at all.           *)
(***************************************************************************)
DispatchDirs ==
    { InstalledPlugins,
      [InstalledPlugins EXCEPT !.exists = {}],
      [InstalledPlugins EXCEPT
         !.exists = {InstalledPlugins.package_plugin_dir,
                     InstalledPlugins.local_plugin_dir},
         !.glob = [d \in {InstalledPlugins.package_plugin_dir,
                          InstalledPlugins.local_plugin_dir} |->
                     IF d = InstalledPlugins.package_plugin_dir
                     THEN InstalledPlugins.glob[d]
                     ELSE << PluginModule("mcts_plugin.py", FALSE, TRUE,
                                          <<"mcts">>, TRUE) >>]] }

DispatchModels ==
    { Str(id \o <<"-", "gpt">>) : id \in
        { <<"mcts">>, <<"bon">>, <<"plug">>, <<"gpt">>,
          <<"mcts", "&">>, <<"plug", "&", "mcts">>, <<"mcts", "&", "gpt">>,
          <<"mcts", "&", "plug", "&", "bon">> } }

DispatchInit ==
    /\ server_config \in
         [ approach : {<<"auto">>}, n : {1},
           model : {<<"gpt", "-", "4o", "-", "mini">>},
           optillm_api_key : {<< >>},
           mcts_simulations : {StartupTuning.mcts_simulations},
           mcts_exploration : {StartupTuning.mcts_exploration},
           mcts_depth : {StartupTuning.mcts_depth} ]
    /\ plugin_dirs \in DispatchDirs
    /\ plugin_approaches = load_plugins(<< >>, plugin_dirs)
    /\ \E model \in DispatchModels :
         ctx = proxy_locals(
                 [model |-> model, optillm_approach |-> None, n |-> None,
                  messages |-> << [role |-> "user", content |-> Str(<<"hi">>)] >>],
                 server_config, plugin_approaches)
    /\ Route(ctx) = "execute_n_times"
    /\ pc = "execute_n_times"
    /\ incoming = None
    /\ loop = NoLoop
    /\ chain = NoChain
    /\ outer = None
    /\ result = None
    /\ calls = <<>>
    /\ response = None
    /\ loops = {}
    /\ threads = <<>>

DispatchSpec ==
    DispatchInit /\ [][rep_SINGLE \/ rep_AND \/ execute_combined_approaches]_vars

(***************************************************************************)
(* C28.  A call for a built-in slug runs the built-in strategy, also when  *)
(* a plugin is registered under that slug; a call for a slug that is not   *)
(* built in and is registered runs the registered callable; a call for any *)
(* other slug, the empty one included, raises UnknownApproach and runs     *)
(* nothing.                                                                *)
(***************************************************************************)
C28_DispatchOrder ==
    \A j \in 1..Len(calls) :
        LET call == calls[j]
        IN  IF call.approach \in known_approaches
            THEN call.ran = "builtin"
            ELSE IF call.approach \in DOMAIN plugin_approaches
            THEN call.ran = "plugin"
            ELSE /\ call.ran = "nothing"
                 /\ call.status = "raised"
                 /\ call.error = "UnknownApproach"
                 /\ response = ErrorJson(500, "UnknownApproach")

\* a plugin is registered as mcts; the request mcts& ran the built-in mcts and
\* then failed on the empty slug
C28_Witness ==
    /\ <<"mcts">> \in DOMAIN plugin_approaches
    /\ Len(calls) = 2
    /\ calls[1].approach = <<"mcts">> /\ calls[1].ran = "builtin"
    /\ calls[1].status = "returned"
    /\ calls[2].approach = << >> /\ calls[2].error = "UnknownApproach"

(***************************************************************************)
(* Threads.  Flask serves every request on a thread of its own (line 906), *)
(* and load_plugins() clears and refills the registry in place (lines      *)
(* 190-238).  Two request threads handle SINGLE requests, each in two      *)
(* steps: proxy up to the parse (lines 577-627), then the call of          *)
(* execute_single_approach (lines 297-376).  A third thread calls          *)
(* load_plugins(), one file per step.  No lock orders any of these steps.  *)
(***************************************************************************)
RequestThreads == {"request 1", "request 2"}

IdleThread == [pc |-> "idle", data |-> None, ctx |-> None, call |-> None]

NoReload == [pc |-> "idle", scan |-> << >>]

\* the bodies the request threads draw from: mcts or plug, with or without
\* tuning fields
ThreadBodies ==
    { [model |-> Str(slug \o <<"-", "gpt">>), optillm_approach |-> None,
       n |-> None,
       messages |-> << [role |-> "user", content |-> Str(<<"hi">>)] >>]
      @@ tuning :
        slug \in { <<"mcts">>, <<"plug">> }, tuning \in TuningFields }

\* plug is declared by a bundled and by a local plugin, memory by a bundled one
ThreadsPlugins ==
    [package_plugin_dir |-> "site-packages/optillm/plugins",
     local_plugin_dir   |-> "cwd/optillm/plugins",
     exists |-> {"site-packages/optillm/plugins", "cwd/optillm/plugins"},
     glob   |-> [d \in {"site-packages/optillm/plugins", "cwd/optillm/plugins"} |->
                   IF d = "cwd/optillm/plugins"
                   THEN << PluginModule("plug_plugin.py", FALSE, TRUE,
                                        <<"plug">>, TRUE) >>
                   ELSE << PluginModule("memory_plugin.py", FALSE, TRUE,
                                        <<"memory">>, TRUE),
                           PluginModule("plug_plugin.py", FALSE, TRUE,
                                        <<"plug">>, TRUE) >>]]

ThreadsInit ==
    /\ server_config \in
         [ approach : {<<"auto">>}, n : {1},
           model : {<<"gpt", "-", "4o", "-", "mini">>},
           optillm_api_key : {<< >>},
           mcts_simulations : {StartupTuning.mcts_simulations},
           mcts_exploration : {StartupTuning.mcts_exploration},
           mcts_depth : {StartupTuning.mcts_depth} ]
    /\ plugin_dirs = ThreadsPlugins
    /\ plugin_approaches = load_plugins(<< >>, ThreadsPlugins)
    /\ threads = [t \in RequestThreads \cup {"load_plugins"} |->
                    IF t \in RequestThreads THEN IdleThread ELSE NoReload]
    /\ pc = "idle"
    /\ incoming = None
    /\ ctx = None
    /\ loop = NoLoop
    /\ chain = NoChain
    /\ outer = None
    /\ result = None
    /\ calls = <<>>
    /\ response = None
    /\ loops = {}

\* lines 577-627: the thread writes the tuning fields of its request into
\* server_config and parses the request
thread_proxy(t) ==
    /\ threads[t].pc = "idle"
    /\ \E data \in ThreadBodies :
         /\ server_config' = WriteTuning(server_config, data)
         /\ threads' = [threads EXCEPT ![t] =
                [pc   |-> "execute_single_approach",
                 data |-> data,
                 ctx  |-> proxy_locals(data, server_config, plugin_approaches),
                 call |-> None]]
    /\ UNCHANGED <<plugin_dirs, plugin_approaches, pc, incoming, ctx, loop,
                   chain, outer, result, calls, response, loops>>

\* lines 297-376: the thread dispatches its first strategy; mcts is called
\* with the tuning values server_config holds now, a plugin slug with the
\* callable the registry holds now
thread_execute(t) ==
    /\ threads[t].pc = "execute_single_approach"
    /\ LET approach == threads[t].ctx.approaches[1]
           d == Dispatch(approach, plugin_approaches)
       IN  threads' = [threads EXCEPT ![t] =
              [@ EXCEPT
                 !.pc = "done",
                 !.call = [approach    |-> approach,
                           ran         |-> d,
                           plugin_func |-> IF d = "plugin"
                                           THEN plugin_approaches[approach]
                                           ELSE None,
                           tuning      |-> IF approach = <<"mcts">>
                                           THEN Tuning(server_config)
                                           ELSE None]]]
    /\ UNCHANGED <<server_config, plugin_dirs, plugin_approaches, pc, incoming,
                   ctx, loop, chain, outer, result, calls, response, loops>>

\* the response is sent and the thread takes the next request
thread_returns(t) ==
    /\ threads[t].pc = "done"
    /\ threads' = [threads EXCEPT ![t] = IdleThread]
    /\ UNCHANGED <<server_config, plugin_dirs, plugin_approaches, pc, incoming,
                   ctx, loop, chain, outer, result, calls, response, loops>>

\* lines 209-223: the files load_plugins will go through, in order
ScanList(dirs) ==
    LET scanned == ScannedDirs(dirs)
        files(d) == IF d.plugin_dir \notin dirs.exists THEN << >>
                    ELSE [i \in 1..Len(dirs.glob[d.plugin_dir]) |->
                            [module     |-> dirs.glob[d.plugin_dir][i],
                             plugin_dir |-> d.plugin_dir]]
    IN  Flatten([k \in 1..Len(scanned) |-> files(scanned[k])])

\* line 190: load_plugins() is called and clears the registry
load_plugins_clears ==
    /\ threads["load_plugins"].pc = "idle"
    /\ plugin_approaches' = Clear(plugin_approaches)
    /\ threads' = [threads EXCEPT !["load_plugins"] =
                      [pc |-> "load_plugins", scan |-> ScanList(plugin_dirs)]]
    /\ UNCHANGED <<server_config, plugin_dirs, pc, incoming, ctx, loop, chain,
                   outer, result, calls, response, loops>>

\* lines 223-238: the next file is loaded
load_plugins_file ==
    /\ threads["load_plugins"].pc = "load_plugins"
    /\ threads["load_plugins"].scan # << >>
    /\ LET next == Head(threads["load_plugins"].scan)
       IN  plugin_approaches' =
              LoadFile(plugin_approaches, next.module, next.plugin_dir)
    /\ threads' = [threads EXCEPT !["load_plugins"].scan = Tail(@)]
    /\ UNCHANGED <<server_config, plugin_dirs, pc, incoming, ctx, loop, chain,
                   outer, result, calls, response, loops>>

\* lines 240-241: load_plugins() returns
load_plugins_returns ==
    /\ threads["load_plugins"].pc = "load_plugins"
    /\ threads["load_plugins"].scan = << >>
    /\ threads' = [threads EXCEPT !["load_plugins"] = NoReload]
    /\ UNCHANGED <<server_config, plugin_dirs, plugin_approaches, pc, incoming,
                   ctx, loop, chain, outer, result, calls, response, loops>>

ThreadsNext ==
    \/ \E t \in RequestThreads : thread_proxy(t)
    \/ \E t \in RequestThreads : thread_execute(t)
    \/ \E t \in RequestThreads : thread_returns(t)
    \/ load_plugins_clears
    \/ load_plugins_file
    \/ load_plugins_returns

ThreadsSpec == ThreadsInit /\ [][ThreadsNext]_vars

\* the slug the request of a thread names
NamedSlug(t) == << threads[t].data.model.val[1] >>

\* the registry a complete load of the directories gives: the one before the
\* reload and the one after it
CompleteRegistry == load_plugins(<< >>, plugin_dirs)

C23_DefaultsUnchanged ==
    (\A t \in RequestThreads : threads[t].pc = "idle") =>
        Tuning(server_config) = StartupTuning

\* the tuning values of a request with its own fields, on the startup values
OwnTuning(t) ==
    [mcts_simulations |-> Get(threads[t].data.mcts_simulations,
                              StartupTuning.mcts_simulations),
     mcts_exploration |-> Get(threads[t].data.mcts_exploration,
                              StartupTuning.mcts_exploration),
     mcts_depth       |-> Get(threads[t].data.mcts_depth,
                              StartupTuning.mcts_depth)]

(***************************************************************************)
(* C30.  While another request is being handled, mcts is called for a      *)
(* request with tuning values that are each the request's own field or the *)
(* startup value, never a field of the other request.                      *)
(***************************************************************************)
C30_OwnTuningOrDefaults ==
    \A t \in RequestThreads :
        ( /\ threads[t].pc = "done"
          /\ threads[t].call.approach = <<"mcts">>
          /\ \E u \in RequestThreads \ {t} : threads[u].pc # "idle" ) =>
            threads[t].call.tuning = OwnTuning(t)

====
